---- MODULE Spec2Model ----
(***************************************************************************)
(* term-image: the frame iterator (ImageIterator), the draw loop           *)
(* (BaseImage.draw) and the sizing (BaseImage.set_size) of                 *)
(* src/src/term_image/image/common.py, and the class registration and the  *)
(* render call of the Renderable API (term_image.renderable).              *)
(*                                                                         *)
(* One animated image, up to two iterators over it, one draw call and the  *)
(* output stream.  PIL image handles are entries of `handles`; `req` holds *)
(* the arguments of the last sizing call.                                  *)
(***************************************************************************)
EXTENDS Integers, Sequences, FiniteSets, TLC

VARIABLES image, handles, ids, it, last, draw, out, req,
          classes, render_cls, render, renderable, styles, fmt

vars == <<image, handles, ids, it, last, draw, out, req,
          classes, render_cls, render, renderable, styles, fmt>>

(***************************************************************************)
(* Bounds                                                                  *)
(***************************************************************************)
MaxFrames == 3      \* largest frame count of the image
MaxRepeat == 2      \* largest positive repeat count
MaxAdv == 7         \* frames an iterator may emit when it runs alone
MaxAdvPair == 3     \* frames each of two concurrent iterators may emit
MaxSeeks == 1       \* successful ImageIterator.seek calls per iterator
MaxResizes == 2     \* changes of the rendered size while iterating
MaxWrites == 7      \* frame writes of one draw call
MaxPx == 3          \* largest width and height of the original, in pixels
MaxCells == 3       \* largest width or height asked of set_size
MaxAvail == 2       \* largest number of columns and of lines of a maxsize
MaxNamespaces == 3  \* namespace classes of each kind
MaxSpecLen == 4     \* tokens of a format specifier

(***************************************************************************)
(* Environment                                                             *)
(***************************************************************************)
\* The terminal keeps its size for the duration of the calls modelled.
TermCols == 2       \* get_terminal_size()[0]
TermLines == 4      \* get_terminal_size()[1]

ItIds == {1, 2}
IterSizes == {<<1, 1>>, <<2, 2>>}
FrameCounts == 2..MaxFrames
\* Argument values: kind "bad" is a value of a wrong type; a bool is 0/1.
Arg(kind, v) == [kind |-> kind, v |-> v]
None == Arg("none", 0)
\* The default arguments of set_size.
NoRequest ==
    [width |-> Arg("none", 0), height |-> Arg("none", 0),
     h_allow |-> Arg("int", 0), v_allow |-> Arg("int", 2),
     maxsize |-> Arg("none", <<>>)]
RepeatArgs == {Arg("bad", 0)} \cup {Arg("int", v) : v \in -1..MaxRepeat}
CachedArgs == {Arg("bad", 0), Arg("bool", 0), Arg("bool", 1),
               Arg("int", 0), Arg("int", 2), Arg("int", 100)}
Outcomes == {"ok", "error", "interrupt"}

Min(a, b) == IF a < b THEN a ELSE b
Max(a, b) == IF a > b THEN a ELSE b

(***************************************************************************)
(* Frames and the cache                                                    *)
(***************************************************************************)
\* A rendered frame: the frame number the decoder was positioned at, the
\* rendered size it was rendered with, and the serial number of the render
\* call that produced it (two frames are the same object iff all agree).
NoFrame == [off |-> -1, size |-> <<0, 0>>, ser |-> 0]

\* A hash that does not depend on the size.
SizeHashMut(sz) == 1

\* hash(image.rendered_size): Python's hash of a 2-tuple of small positive
\* ints is collision free on the sizes used here, and never equals None.
SizeHash(sz) == sz[1] * 1000 + sz[2]

\* (None,) * 2
EmptySlot == <<NoFrame, 0>>

\* The state of one _animate generator.
\*   gen      "unstarted", "y1" (suspended at the first yield), "y2"
\*            (suspended at the second yield) or "finished"
\*   r, n     the locals repeat and n;  frame: the local frame
\*   loop_no  ImageIterator._loop_no: <<>> is None, <<v>> the integer v
\*   renders  ghost: number of frames rendered so far
NewGen == [gen |-> "unstarted", r |-> 0, n |-> 0, frame |-> NoFrame,
           cache |-> <<>>, loop_no |-> <<>>, renders |-> 0]

\* The part of the world a generator touches: the image's _seek_position
\* and the position of the PIL image it reads.
World(seek, hpos) == [seek |-> seek, hpos |-> hpos]

\* Arguments and environment of one generator step.
Ctx(repeat, cached, nf, size, pil, outcome) ==
    [repeat |-> repeat, cached |-> cached, nf |-> nf, size |-> size,
     pil |-> pil, outcome |-> outcome]

Result(g, w, res) == [g |-> g, w |-> w, res |-> res]

\* The repeat count is never decremented.
DecRepeatMut(g) == g

\* repeat = repeat - 1 when repeat > 0 (with self._loop_no)
DecRepeat(g) ==
    IF g.r > 0 THEN [g EXCEPT !.r = g.r - 1, !.loop_no = <<g.r - 1>>] ELSE g

\* The generator runs off its end: img.seek(0) when img is the source.
Finish(g, w, c) ==
    Result([g EXCEPT !.gen = "finished"],
           IF c.pil THEN [w EXCEPT !.hpos = 0] ELSE w,
           "StopIteration")

\* The rendered frame is not stored in the cache.
RenderYieldMut(g, w, c, at) ==
    LET w1 == [w EXCEPT !.hpos = w.seek]
        f == [off |-> w1.hpos, size |-> c.size, ser |-> g.renders + 1]
    IN  IF c.outcome = "ok"
        THEN Result([g EXCEPT !.gen = at, !.frame = f,
                              !.renders = g.renders + 1],
                    w1, "frame")
        ELSE Result([g EXCEPT !.gen = "finished"], w1, c.outcome)

\* image._format_render(image._render_image(img, alpha, frame=True)) with
\* image._seek_position = n already set in w, then the yield at `at`.
\* _get_render_data seeks img to the image's seek position first.
RenderYield(g, w, c, at) ==
    LET w1 == [w EXCEPT !.hpos = w.seek]
        f == [off |-> w1.hpos, size |-> c.size, ser |-> g.renders + 1]
    IN  IF c.outcome = "ok"
        THEN Result([g EXCEPT !.gen = at, !.frame = f,
                              !.renders = g.renders + 1,
                              !.cache = IF c.cached
                                        THEN [g.cache EXCEPT ![g.n + 1] =
                                                 <<f, SizeHash(c.size)>>]
                                        ELSE g.cache],
                    w1, "frame")
        ELSE Result([g EXCEPT !.gen = "finished"], w1, c.outcome)

\* The image's seek position is left as it is.
SetSeekMut(w, n) == w

\* image._seek_position = n
SetSeek(w, n) == [w EXCEPT !.seek = n]

\* The second loop of _animate, entered at the test of `while repeat`.
RECURSIVE Loop2(_, _, _)
Loop2(g, w, c) ==
    IF g.r = 0 THEN Finish(g, w, c)
    ELSE IF g.n < c.nf
    THEN LET w1 == SetSeek(w, g.n)
             slot == g.cache[g.n + 1]
         IN  IF SizeHash(c.size) # slot[2]
             THEN RenderYield(g, w1, c, "y2")
             ELSE Result([g EXCEPT !.gen = "y2", !.frame = slot[1]],
                         w1, "frame")
    ELSE Loop2(DecRepeat([g EXCEPT !.n = 0]), SetSeek(w, 0), c)

\* The first loop of _animate, entered at the test of `while repeat` with
\* sent = None.  Seeking img past the last frame raises EOFError.
RECURSIVE Loop1(_, _, _)
Loop1(g, w, c) ==
    IF g.r = 0 THEN Finish(g, w, c)
    ELSE IF g.n >= c.nf
    THEN LET g2 == DecRepeat([g EXCEPT !.n = 0])
             w2 == SetSeek(w, 0)
         IN  IF c.cached THEN Loop2(g2, w2, c) ELSE Loop1(g2, w2, c)
    ELSE RenderYield(g, SetSeek(w, g.n), c, "y1")

\* next(generator)
Resume(g, w, c) ==
    CASE g.gen = "unstarted" ->
           Loop1([g EXCEPT !.r = c.repeat, !.loop_no = <<c.repeat>>, !.n = 0,
                           !.cache = IF c.cached
                                     THEN [k \in 1..c.nf |-> EmptySlot]
                                     ELSE <<>>],
                 w, c)
      [] g.gen = "y1" -> Loop1([g EXCEPT !.n = g.n + 1], w, c)
      [] g.gen = "y2" -> Loop2([g EXCEPT !.n = g.n + 1], w, c)
      [] OTHER -> Result(g, w, "StopIteration")

\* n = sent instead of n = sent - 1
SendMut(g, pos) ==
    CASE g.gen = "unstarted" -> [g |-> g, res |-> "TypeError"]
      [] g.gen = "finished" -> [g |-> g, res |-> "StopIteration"]
      [] OTHER -> [g |-> [g EXCEPT !.n = pos], res |-> "frame"]

\* generator.send(pos): n = sent - 1, then straight to the next yield,
\* which hands back the current frame without rendering.
Send(g, pos) ==
    CASE g.gen = "unstarted" -> [g |-> g, res |-> "TypeError"]
      [] g.gen = "finished" -> [g |-> g, res |-> "StopIteration"]
      [] OTHER -> [g |-> [g EXCEPT !.n = pos - 1], res |-> "frame"]

(***************************************************************************)
(* The image and its PIL image handles                                     *)
(***************************************************************************)
\* handles[h] is a PIL image object: open or closed, and the frame it is
\* positioned at.  When the image was made from a PIL image (image.pil)
\* that caller-supplied object is handles[1] and is image._source.
SourceHandle == 1

IsSource(h) == image.pil /\ h = SourceHandle

\* BaseImage._get_image: the source itself, or a newly opened file.
GetImage(hs) ==
    IF image.pil
    THEN [hs |-> hs, h |-> SourceHandle]
    ELSE [hs |-> Append(hs, [open |-> TRUE, pos |-> 0]), h |-> Len(hs) + 1]

\* BaseImage._close_image
CloseImage(hs, h) ==
    IF IsSource(h) THEN hs ELSE [hs EXCEPT ![h].open = FALSE]

(***************************************************************************)
(* ImageIterator                                                           *)
(***************************************************************************)
\* st: "absent" (not constructed), "open" (has _animator) or "closed"
\*     (_animator deleted).
\* img: the PIL image passed to _animate; hasImg: self._img is set.
\* Ghost fields: cnt (frames emitted), seeks and sought (successful seeks),
\* resized (the rendered size changed after the first advance), how (what
\* first ended the iteration: "exhausted", "closed", "error", "interrupt"),
\* carg (the cached argument it was made with), pend and pendLoop (frame
\* asked for by a seek not yet honoured, and loop_no at that time), seen (per frame number, the last frame rendered
\* for it), ag and aw (this iterator replayed with nothing else touching the
\* image: generator state and world).
NoIterator ==
    [st |-> "absent", repeat |-> 0, cached |-> FALSE, img |-> 0,
     hasImg |-> FALSE, g |-> NewGen, cnt |-> 0, seeks |-> 0,
     sought |-> FALSE, resized |-> FALSE, how |-> "", pend |-> -1,
     pendLoop |-> <<>>, seen |-> <<>>, ag |-> NewGen,
     aw |-> World(0, 0), ast |-> "absent", carg |-> None]

Note(op, id, res) == [op |-> op, id |-> id, res |-> res]

AdvCap == IF Cardinality(ids) > 1 THEN MaxAdvPair ELSE MaxAdv

\* The argument checks of ImageIterator.__init__, in order.
InitError(rep, cch) ==
    IF rep.kind = "bad" THEN "TypeError"
    ELSE IF rep.v = 0 THEN "ValueError"
    ELSE IF cch.kind = "bad" THEN "TypeError"
    ELSE IF cch.kind = "int" /\ cch.v <= 0 THEN "ValueError"
    ELSE "ok"

\* Caching is not switched off for a single loop.
CachedFlagMut(rep, cch, nf) ==
    IF cch.kind = "bool" THEN cch.v = 1 ELSE nf <= cch.v

\* self._cached
CachedFlag(rep, cch, nf) ==
    (IF cch.kind = "bool" THEN cch.v = 1 ELSE nf <= cch.v) /\ rep.v # 1

\* ImageIterator.close: close the generator, delete _animator, close
\* self._img and delete it; any AttributeError on the way ends the method.
CloseIt(x, hs) ==
    IF x.st # "open" THEN [x |-> x, hs |-> hs]
    ELSE LET x1 == [x EXCEPT !.st = "closed", !.g.gen = "finished",
                             !.how = IF x.how = "" THEN "closed" ELSE x.how]
         IN  IF x.hasImg
             THEN [x |-> [x1 EXCEPT !.hasImg = FALSE],
                   hs |-> CloseImage(hs, x.img)]
             ELSE [x |-> x1, hs |-> hs]

\* The replay of close() on the iterator run alone.
CloseAlone(x) ==
    IF x.ast # "open" THEN x
    ELSE [x EXCEPT !.ast = "closed", !.ag.gen = "finished"]

Close(i) ==
    /\ it[i].st # "absent"
    /\ LET c == CloseIt(it[i], handles)
       IN  /\ it' = [it EXCEPT ![i] = CloseAlone(c.x)]
           /\ handles' = c.hs
    /\ last' = Note("close", i, "ok")
    /\ UNCHANGED <<image, ids, draw, out, req, classes, render_cls, render,
                   renderable, styles, fmt>>

\* The AttributeError is passed on instead of being turned into StopIteration.
ClosedAdvanceMut == "AttributeError"

\* What __next__ raises when the iterator has no _animator.
ClosedAdvance == "StopIteration"

\* ImageIterator.__next__ on an iterator that has an _animator: the state
\* of the iterator, of the image and of the handles afterwards.
Advance(x, seek, hs, outcome) ==
    LET c == Ctx(x.repeat, x.cached, image.nf, image.size, image.pil, outcome)
        r == Resume(x.g, World(seek, hs[x.img].pos), c)
        x1 == [x EXCEPT !.g = r.g,
                        !.hasImg = x.hasImg \/ x.g.gen = "unstarted",
                        !.how = IF x.how # "" \/ r.res = "frame" THEN x.how
                                ELSE IF r.res = "StopIteration"
                                THEN "exhausted" ELSE r.res]
        hs1 == [hs EXCEPT ![x.img].pos = r.w.hpos]
        cl == IF r.res \in {"StopIteration", "error"}
              THEN CloseIt(x1, hs1) ELSE [x |-> x1, hs |-> hs1]
    IN  [x |-> cl.x, hs |-> cl.hs, seek |-> r.w.seek, res |-> r.res]

\* The same advance replayed on the iterator run alone.
AdvanceAlone(x, outcome) ==
    IF x.ast # "open" THEN x
    ELSE LET c == Ctx(x.repeat, x.cached, image.nf, image.size, image.pil,
                      outcome)
             r == Resume(x.ag, x.aw, c)
         IN  [x EXCEPT !.ag = r.g, !.aw = r.w,
                       !.ast = IF r.res \in {"StopIteration", "error"}
                               THEN "closed" ELSE x.ast,
                       !.ag.gen = IF r.res \in {"StopIteration", "error"}
                                  THEN "finished" ELSE r.g.gen]

\* Ghost bookkeeping after an advance that returned a frame.
Emitted(x, x0) ==
    [x EXCEPT !.cnt = x0.cnt + 1, !.pend = -1, !.pendLoop = <<>>,
              !.seen = IF x.g.renders > x0.g.renders
                       THEN [x0.seen EXCEPT ![x.g.frame.off + 1] = x.g.frame]
                       ELSE x0.seen]

\* next(iterator)
Next(i, outcome) ==
    /\ it[i].st # "absent"
    /\ it[i].cnt < AdvCap
    /\ UNCHANGED <<ids, draw, out, req, classes, render_cls, render,
                   renderable, styles, fmt>>
    /\ IF it[i].st = "closed"
       THEN /\ last' = Note("next", i, ClosedAdvance)
            /\ UNCHANGED <<image, handles, it>>
       ELSE LET a == Advance(it[i], image.seek, handles, outcome)
                x2 == AdvanceAlone(a.x, outcome)
            IN  /\ it' = [it EXCEPT ![i] = IF a.res = "frame"
                                           THEN Emitted(x2, it[i]) ELSE x2]
                /\ handles' = a.hs
                /\ image' = [image EXCEPT !.seek = a.seek]
                /\ last' = Note("next", i, a.res)

\* A missing _animator is not told apart from a finished generator.
SeekResultMut(x, pos) ==
    IF ~(0 <= pos /\ pos < image.nf) THEN "ValueError"
    ELSE LET s == Send(x.g, pos)
         IN  IF s.res = "TypeError" THEN "TermImageError" ELSE s.res

\* ImageIterator.seek(pos)
SeekResult(x, pos) ==
    IF ~(0 <= pos /\ pos < image.nf) THEN "ValueError"
    ELSE IF x.st = "closed" THEN "TermImageError"
    ELSE LET s == Send(x.g, pos)
         IN  IF s.res = "TypeError" THEN "TermImageError" ELSE s.res

Seek(i, pos) ==
    /\ it[i].st # "absent"
    /\ it[i].seeks < MaxSeeks
    /\ LET res == SeekResult(it[i], pos)
       IN  /\ last' = Note("seek", i, IF res = "frame" THEN "ok" ELSE res)
           /\ it' = IF res = "frame"
                    THEN [it EXCEPT ![i].g = Send(it[i].g, pos).g,
                                    ![i].ag = Send(it[i].ag, pos).g,
                                    ![i].seeks = it[i].seeks + 1,
                                    ![i].sought = TRUE,
                                    ![i].pend = pos,
                                    ![i].pendLoop = it[i].g.loop_no]
                    ELSE it
    /\ UNCHANGED <<image, handles, ids, draw, out, req, classes, render_cls,
                   render, renderable, styles, fmt>>

\* BaseImage.seek(pos) called directly on the image
ImageSeek(pos) ==
    /\ draw.pc = "idle"
    /\ IF 0 <= pos /\ pos < image.nf
       THEN /\ image' = [image EXCEPT !.seek = pos]
            /\ last' = Note("image.seek", 0, "ok")
       ELSE /\ image' = image
            /\ last' = Note("image.seek", 0, "ValueError")
    /\ UNCHANGED <<handles, ids, it, draw, out, req, classes, render_cls,
                   render, renderable, styles, fmt>>

\* The rendered size changes (set_size with another width or height).
Resize(sz) ==
    /\ draw.pc = "idle"
    /\ sz # image.size
    /\ image.resizes < MaxResizes
    /\ image' = [image EXCEPT !.size = sz, !.resizes = image.resizes + 1]
    /\ it' = [i \in ItIds |->
                IF it[i].g.gen \in {"y1", "y2"}
                THEN [it[i] EXCEPT !.resized = TRUE] ELSE it[i]]
    /\ last' = Note("resize", 0, "ok")
    /\ UNCHANGED <<handles, ids, draw, out, req, classes, render_cls, render,
                   renderable, styles, fmt>>

(***************************************************************************)
(* Sizing: BaseImage.set_size, the size setter and BaseImage._valid_size   *)
(***************************************************************************)
\* Python floats are modelled by exact fractions <<numerator, denominator>>
\* with a positive denominator; on the original sizes, cell sizes, pixel
\* ratios and available sizes of this model the float results of the code
\* are the exact ones.
Frac(n, d) == <<n, d>>
FMul(a, b) == <<a[1] * b[1], a[2] * b[2]>>
FDiv(a, b) == <<a[1] * b[2], a[2] * b[1]>>
FLess(a, b) == a[1] * b[2] < b[1] * a[2]
\* min(a, b) of Python: b when b < a, else a
FMin(a, b) == IF FLess(b, a) THEN b ELSE a

\* round(x) of Python for x >= 0: to the nearest integer, a tie to the even one
Round(a) ==
    LET q == a[1] \div a[2]
        r2 == 2 * (a[1] % a[2])
    IN  IF r2 < a[2] THEN q
        ELSE IF r2 > a[2] THEN q + 1
        ELSE IF q % 2 = 0 THEN q ELSE q + 1

\* No floor at 1.
Or1Mut(x) == x

\* `x or 1`
Or1(x) == IF x = 0 THEN 1 ELSE x

\* The members of the enumeration Size.
SizeMembers == {"AUTO", "FIT", "FIT_TO_WIDTH", "ORIGINAL"}

\* _pixels_cols(pixels=p) and _pixels_cols(cols=c); im.cell is
\* get_cell_size() or (1, 2)
PixelsCols(im, pixels) == pixels \div im.cell[1]
ColsPixels(im, cols) == cols * im.cell[1]
\* _pixels_lines(pixels=p) and _pixels_lines(lines=l)
PixelsLines(im, pixels) == pixels \div im.cell[2]
LinesPixels(im, lines) == lines * im.cell[2]

\* _width_height_px(w=w) and _width_height_px(h=h), unrounded
WidthToHeightPx(im, w) == FMul(Frac(w, im.ori[1]), Frac(im.ori[2], 1))
HeightToWidthPx(im, h) == FMul(Frac(h, im.ori[2]), Frac(im.ori[1], 1))

SizeResult(res, size) == [res |-> res, size |-> size]

\* The available size _valid_size works with: maxsize, or the terminal size
\* minus the allowances.  maxsize is <<>> (None) or <<columns, lines>>.
Available(h_allow, v_allow, maxsize) ==
    IF maxsize # <<>> THEN maxsize
    ELSE <<TermCols - h_allow, TermLines - v_allow>>

\* The test of Size.AUTO: the original size does not fit, in pixels.
AutoIsFit(im, max_width, max_height) ==
    \/ im.ori[1] > max_width
    \/ Round(FMul(Frac(im.ori[2], 1), im.pr)) > max_height

\* Size.FIT_TO_WIDTH
FitToWidth(im, max_width) ==
    <<Or1(PixelsCols(im, max_width)),
      Or1(PixelsLines(im, Round(FMul(WidthToHeightPx(im, max_width), im.pr))))>>

\* Size.ORIGINAL
Original(im) ==
    <<Or1(PixelsCols(im, im.ori[1])),
      Or1(PixelsLines(im, Round(FMul(Frac(im.ori[2], 1), im.pr))))>>

\* The axis adjusted by the pixel ratio is not reduced to the maximum.
FitMut(im, max_width, max_height) ==
    LET x == Frac(max_width, im.ori[1])
        y == Frac(max_height, im.ori[2])
        m == FMin(x, y)
        w0 == FMul(Frac(im.ori[1], 1), m)
        h0 == FMul(Frac(im.ori[2], 1), m)
    IN  IF FLess(x, y)
        THEN <<Or1(PixelsCols(im, Round(w0))),
               Or1(PixelsLines(im, Round(FMul(h0, im.pr))))>>
        ELSE <<Or1(PixelsCols(im, Round(FDiv(w0, im.pr)))),
               Or1(PixelsLines(im, Round(h0)))>>

\* Size.FIT
Fit(im, max_width, max_height) ==
    LET x == Frac(max_width, im.ori[1])
        y == Frac(max_height, im.ori[2])
        m == FMin(x, y)
        w0 == FMul(Frac(im.ori[1], 1), m)
        h0 == FMul(Frac(im.ori[2], 1), m)
    IN  IF FLess(x, y)
        THEN LET h1 == FMul(h0, im.pr)
                 height_px == FMin(h1, Frac(max_height, 1))
                 width_px == Round(FMul(FDiv(height_px, h1), w0))
             IN  <<Or1(PixelsCols(im, width_px)),
                   Or1(PixelsLines(im, Round(height_px)))>>
        ELSE LET w1 == FDiv(w0, im.pr)
                 width_px == FMin(w1, Frac(max_width, 1))
                 height_px == Round(FMul(FDiv(width_px, w1), h0))
             IN  <<Or1(PixelsCols(im, Round(width_px))),
                   Or1(PixelsLines(im, height_px))>>

\* No check against maxsize.
FitsMaxsizeMut(width, height, maxsize) == TRUE

\* `not (maxsize and (width > columns or height > lines))`
FitsMaxsize(width, height, maxsize) ==
    maxsize = <<>> \/ ~(width > maxsize[1] \/ height > maxsize[2])

\* _valid_size(width, height, h_allow, v_allow, maxsize) for arguments that
\* set_size has accepted: width and height are Arg("none", 0),
\* Arg("int", v) with v > 0 or Arg(member, 0), not both given.
ValidSize(im, width, height, h_allow, v_allow, maxsize) ==
    LET avail == Available(h_allow, v_allow, maxsize)
        columns == avail[1]
        lines == avail[2]
        max_width == ColsPixels(im, columns)
        max_height == LinesPixels(im, lines)
        kinds == {width.kind, height.kind}
    IN  IF "int" \notin kinds
        THEN IF columns <= 0 \/ lines <= 0
             THEN SizeResult("ValueError", <<0, 0>>)
             ELSE LET member ==
                        IF "AUTO" \in kinds
                        THEN IF AutoIsFit(im, max_width, max_height)
                             THEN "FIT" ELSE "ORIGINAL"
                        ELSE IF "FIT_TO_WIDTH" \in kinds THEN "FIT_TO_WIDTH"
                        ELSE IF "ORIGINAL" \in kinds THEN "ORIGINAL"
                        ELSE "FIT"
                  IN  CASE member = "FIT_TO_WIDTH" ->
                             SizeResult("ok", FitToWidth(im, max_width))
                        [] member = "ORIGINAL" ->
                             SizeResult("ok", Original(im))
                        [] OTHER ->
                             SizeResult("ok", Fit(im, max_width, max_height))
        ELSE LET w == IF width.kind = "none"
                      THEN PixelsCols(im, Round(FDiv(
                               HeightToWidthPx(im, LinesPixels(im, height.v)),
                               im.pr)))
                      ELSE width.v
                 h == IF width.kind # "none" /\ height.kind = "none"
                      THEN PixelsLines(im, Round(FMul(
                               WidthToHeightPx(im, ColsPixels(im, width.v)),
                               im.pr)))
                      ELSE height.v
             IN  IF ~FitsMaxsize(w, h, maxsize)
                 THEN SizeResult("InvalidSizeError", <<0, 0>>)
                 ELSE SizeResult("ok", <<Or1(w), Or1(h)>>)

\* The argument checks of set_size, in the order of the code.  width and
\* height are Arg("none", 0) (None), Arg("int", v), Arg(member, 0) or
\* Arg("bad", 0) (any other type); h_allow and v_allow are Arg("int", v) or
\* Arg("bad", 0); maxsize is Arg("none", <<>>), Arg("tuple", t) for a tuple
\* of integers t, or Arg("bad", <<>>).
SetSizeError(width, height, h_allow, v_allow, maxsize) ==
    LET AxisError(x) ==
            IF x.kind = "bad" THEN "TypeError"
            ELSE IF x.kind = "int" /\ x.v <= 0 THEN "ValueError"
            ELSE "ok"
        AllowError(x) ==
            IF x.kind = "bad" THEN "TypeError"
            ELSE IF x.v < 0 THEN "ValueError"
            ELSE "ok"
    IN  IF width.kind # "none" /\ height.kind # "none" THEN "ValueError"
        ELSE IF AxisError(width) # "ok" THEN AxisError(width)
        ELSE IF AxisError(height) # "ok" THEN AxisError(height)
        ELSE IF AllowError(h_allow) # "ok" THEN AllowError(h_allow)
        ELSE IF AllowError(v_allow) # "ok" THEN AllowError(v_allow)
        ELSE IF maxsize.kind = "bad" THEN "TypeError"
        ELSE IF maxsize.kind = "tuple"
                /\ ~(Len(maxsize.v) = 2 /\ \A j \in 1..Len(maxsize.v) : maxsize.v[j] > 0)
             THEN "ValueError"
        ELSE "ok"

\* The allowances are stored before the size is computed.
SetSizeOfMut(im, width, height, h_allow, v_allow, maxsize) ==
    LET err == SetSizeError(width, height, h_allow, v_allow, maxsize)
        fit_to_width == "FIT_TO_WIDTH" \in {width.kind, height.kind}
        va == IF fit_to_width THEN 0 ELSE v_allow.v
        r == ValidSize(im, width, height, h_allow.v, va, maxsize.v)
        im1 == [im EXCEPT !.fit_to_width = fit_to_width,
                          !.h_allow = h_allow.v, !.v_allow = va]
    IN  IF err # "ok" THEN [image |-> im, res |-> err]
        ELSE IF r.res # "ok" THEN [image |-> im1, res |-> r.res]
        ELSE [image |-> [im1 EXCEPT !.size = r.size, !.dyn = ""], res |-> "ok"]

\* set_size as a function of the image: the image after the call and the
\* exception raised, if any.  im.dyn is the Size member of a dynamic size
\* and "" for a fixed size, which is im.size.
SetSizeOf(im, width, height, h_allow, v_allow, maxsize) ==
    LET err == SetSizeError(width, height, h_allow, v_allow, maxsize)
        fit_to_width == "FIT_TO_WIDTH" \in {width.kind, height.kind}
        va == IF fit_to_width THEN 0 ELSE v_allow.v
        r == ValidSize(im, width, height, h_allow.v, va, maxsize.v)
    IN  IF err # "ok" THEN [image |-> im, res |-> err]
        ELSE IF r.res # "ok" THEN [image |-> im, res |-> r.res]
        ELSE [image |-> [im EXCEPT !.size = r.size, !.dyn = "",
                                   !.fit_to_width = fit_to_width,
                                   !.h_allow = h_allow.v, !.v_allow = va],
              res |-> "ok"]

\* The setter of the property size.  value is Arg(member, 0) or Arg("bad", 0).
SizeSetterOf(im, value) ==
    IF value.kind \notin SizeMembers THEN [image |-> im, res |-> "TypeError"]
    ELSE [image |-> [im EXCEPT !.size = <<0, 0>>, !.dyn = value.kind,
                               !.fit_to_width = (value.kind = "FIT_TO_WIDTH"),
                               !.h_allow = 0, !.v_allow = 2],
          res |-> "ok"]

\* The call set_size(width, height, h_allow, v_allow, maxsize).  req records
\* the arguments of the last sizing call.
SetSize(width, height, h_allow, v_allow, maxsize) ==
    /\ draw.pc = "idle"
    /\ LET r == SetSizeOf(image, width, height, h_allow, v_allow, maxsize)
       IN  /\ image' = r.image
           /\ last' = Note("set_size", 0, r.res)
    /\ req' = [width |-> width, height |-> height, h_allow |-> h_allow,
               v_allow |-> v_allow, maxsize |-> maxsize]
    /\ UNCHANGED <<handles, ids, it, draw, out, classes, render_cls, render,
                   renderable, styles, fmt>>

\* The assignment image.size = value.
SizeSetter(value) ==
    /\ draw.pc = "idle"
    /\ LET r == SizeSetterOf(image, value)
       IN  /\ image' = r.image
           /\ last' = Note("size", 0, r.res)
    /\ req' = [NoRequest EXCEPT !.width = value]
    /\ UNCHANGED <<handles, ids, it, draw, out, classes, render_cls, render,
                   renderable, styles, fmt>>

(***************************************************************************)
(* BaseImage.draw                                                          *)
(***************************************************************************)
\* What is written to standard output, in order.
Tok(t, v) == [t |-> t, v |-> v]
HideCursor == Tok("hide", 0)
ShowCursor == Tok("show", 0)
ColorReset == Tok("reset", 0)

PadHeights == {0, 1, 3, 5}      \* pad_height; 0 is None
DrawCached == {Arg("bad", 0), Arg("bool", 0), Arg("int", 100)}

\* pc: "idle", "anim" (inside the frame loop of _display_animated),
\*     "returned" or "raised" (with the exception in err).
\* tty: sys.stdout.isatty(); anim: the call animates; padH: pad_height;
\* lines, prev: the locals lines and prev_seek_pos of _display_animated;
\* img: the PIL image draw got from _get_image; itImg: the one the
\* ImageIterator constructor got; g: the generator image_it._animator;
\* dyn: the local _size of _renderer when it is a Size member, else "";
\* scroll, check: the arguments scroll and check_size; early: the outcome
\* of the checks of draw on its own arguments.
NoDraw ==
    [pc |-> "idle", tty |-> FALSE, anim |-> FALSE, padH |-> 0, lines |-> 0,
     prev |-> 0, img |-> 0, itImg |-> 0, repeat |-> 0, cached |-> FALSE,
     g |-> NewGen, err |-> "", dyn |-> "", scroll |-> FALSE,
     check |-> FALSE, early |-> "ok"]

\* rendered_size (the scale is 1.0 on both axes)
RenderedSize(im) ==
    IF im.dyn = "" THEN im.size
    ELSE ValidSize(im, Arg(im.dyn, 0), None, 0, 2, <<>>).size

\* _renderer, before the size validation: an image with a dynamic size gets
\* the size set_size(_size) gives it.
Sized(im) ==
    IF im.dyn = "" THEN [image |-> im, res |-> "ok"]
    ELSE SetSizeOf(im, Arg(im.dyn, 0), None, Arg("int", 0), Arg("int", 2),
                   Arg("none", <<>>))

\* The finally clause of _renderer assigns nothing.
UnsizedMut(im, dyn) == im

\* The finally clause of _renderer: self.size = _size for a dynamic size.
Unsized(im, dyn) ==
    IF dyn = "" THEN im ELSE SizeSetterOf(im, Arg(dyn, 0)).image

\* ImageIterator(image, repeat, "", cached): the checks of the arguments,
\* then image._renderer(self._animate, ...), which gives a dynamic size a
\* concrete value, makes the generator without running it, and assigns the
\* dynamic size back.
Create(i, rep, cch) ==
    /\ it[i].st = "absent"
    /\ UNCHANGED <<ids, draw, out, req, classes, render_cls, render,
                   renderable, styles, fmt>>
    /\ IF InitError(rep, cch) # "ok"
       THEN /\ last' = Note("create", i, InitError(rep, cch))
            /\ UNCHANGED <<image, handles, it>>
       ELSE LET sized == Sized(image)
                got == GetImage(handles)
                w0 == World(image.seek, got.hs[got.h].pos)
            IN  /\ image' = Unsized(sized.image, image.dyn)
                /\ IF sized.res # "ok"
                   THEN /\ last' = Note("create", i, sized.res)
                        /\ UNCHANGED <<handles, it>>
                   ELSE /\ handles' = got.hs
                        /\ it' = [it EXCEPT ![i] =
                                    [NoIterator EXCEPT
                                       !.st = "open", !.ast = "open",
                                       !.repeat = rep.v,
                                       !.cached = CachedFlag(rep, cch, image.nf),
                                       !.carg = cch,
                                       !.img = got.h, !.aw = w0,
                                       !.seen = [k \in 1..image.nf |-> NoFrame]]]
                        /\ last' = Note("create", i, "ok")

\* scroll is ignored.
SizeErrorNoScroll(im, dyn, scroll, check_size, animated) ==
    /\ dyn = ""
    /\ check_size \/ animated
    /\ LET columns == TermCols - im.h_allow
           lines == TermLines - im.v_allow
           h == IF im.fit_to_width THEN 0 ELSE RenderedSize(im)[2]
       IN  \/ RenderedSize(im)[1] > columns
           \/ h > lines
           \/ animated /\ RenderedSize(im)[2] > lines

\* The size validation of _renderer: dyn is the local _size when it is a
\* Size member, else "", and then im has a fixed size.
SizeError(im, dyn, scroll, check_size, animated) ==
    /\ dyn = ""
    /\ check_size \/ animated
    /\ LET columns == TermCols - im.h_allow
           lines == TermLines - (IF animated \/ ~scroll THEN im.v_allow ELSE 0)
           h == IF im.fit_to_width \/ scroll THEN 0 ELSE RenderedSize(im)[2]
       IN  \/ RenderedSize(im)[1] > columns
           \/ h > lines
           \/ animated /\ RenderedSize(im)[2] > lines

\* The checks of draw on its own arguments: `early` is the outcome of the
\* checks of the alignment, alpha, animate, scroll and check_size arguments.
DrawArgError(early, animate, padH) ==
    IF early # "ok" THEN early
    ELSE IF animate /\ padH > TermLines THEN "ValueError"
    ELSE "ok"

\* The number of lines of a frame formatted by _format_render.
FormatRows(im, renderLines, padH) ==
    LET height == IF padH # 0 THEN padH ELSE TermLines - im.v_allow
    IN  IF height > renderLines THEN height ELSE renderLines

\* Only the rendered height counts.
DisplayLinesMut(im, padH) == RenderedSize(im)[2]

\* lines of _display_animated
DisplayLines(im, padH) ==
    Max(IF padH # 0 THEN padH ELSE TermLines - im.v_allow, RenderedSize(im)[2])

\* The cursor is not shown again.
RestoreMut(tty) == <<ColorReset>>

\* The finally clause of render(): reset the color and show the cursor.
Restore(tty) == <<ColorReset>> \o (IF tty THEN <<ShowCursor>> ELSE <<>>)

\* print(frame): a frame write, with the number of lines it occupies.
FrameTok(im, f, padH) == Tok("frame", FormatRows(im, f.size[2], padH))

\* The seek position is left where the last frame put it.
EndAnimatedMut(d, hs, pc, err) ==
    /\ draw' = [d EXCEPT !.pc = pc, !.err = err, !.g.gen = "finished"]
    /\ handles' = CloseImage(CloseImage(hs, d.img), d.img)
    /\ image' = Unsized(image, d.dyn)
    /\ out' = out \o <<Tok("down", d.lines)>> \o Restore(d.tty)

\* The finally clause of _display_animated, then that of render():
\* image_it.close(), self._close_image(img), the seek position goes back to
\* prev_seek_pos, the cursor moves down, color reset and show cursor; then
\* the finally clause of _renderer.
EndAnimated(d, hs, pc, err) ==
    /\ draw' = [d EXCEPT !.pc = pc, !.err = err, !.g.gen = "finished"]
    /\ handles' = CloseImage(CloseImage(hs, d.img), d.img)
    /\ image' = Unsized([image EXCEPT !.seek = d.prev], d.dyn)
    /\ out' = out \o <<Tok("down", d.lines)>> \o Restore(d.tty)

ErrName(res) == IF res = "interrupt" THEN "KeyboardInterrupt" ELSE "RenderError"

\* draw(...) up to the first frame write of an animation, or to the end
\* for everything else.
DrawBegin(tty, early, animate, rep, cch, styleOK, padH, scroll, check, conv, outcome) ==
    /\ draw.pc = "idle"
    /\ UNCHANGED <<ids, it, req, classes, render_cls, render, renderable,
                   styles, fmt>>
    /\ last' = Note("draw", 0, "")
    /\ LET d0 == [NoDraw EXCEPT !.tty = tty, !.anim = animate, !.padH = padH,
                                !.dyn = image.dyn, !.scroll = scroll,
                                !.check = check,
                                !.early = DrawArgError(early, animate, padH)]
           sized == Sized(image)
           im == sized.image
           back == Unsized(im, image.dyn)
           got == GetImage(handles)
           d1 == [d0 EXCEPT !.img = got.h]
           hidden == IF tty THEN <<HideCursor>> ELSE <<>>
       IN
       IF DrawArgError(early, animate, padH) # "ok"
       THEN /\ draw' = [d0 EXCEPT !.pc = "raised",
                                  !.err = DrawArgError(early, animate, padH)]
            /\ UNCHANGED <<image, handles, out>>
       ELSE IF sized.res # "ok"
       THEN \* set_size(_size) raises in _renderer
            /\ draw' = [d0 EXCEPT !.pc = "raised", !.err = sized.res]
            /\ image' = back
            /\ UNCHANGED <<handles, out>>
       ELSE IF SizeError(im, image.dyn, scroll, check, animate)
       THEN /\ draw' = [d0 EXCEPT !.pc = "raised", !.err = "InvalidSizeError"]
            /\ image' = back
            /\ UNCHANGED <<handles, out>>
       ELSE IF ~styleOK
       THEN \* _check_style_args raises inside render()
            /\ draw' = [d1 EXCEPT !.pc = "raised", !.err = "StyleError"]
            /\ handles' = got.hs
            /\ out' = hidden \o Restore(tty)
            /\ image' = back
       ELSE IF ~animate
       THEN \* print(self._format_render(self._render_image(image, alpha)))
            /\ handles' = IF conv THEN CloseImage(got.hs, got.h) ELSE got.hs
            /\ image' = back
            /\ IF outcome = "ok"
               THEN /\ draw' = [d1 EXCEPT !.pc = "returned"]
                    /\ out' = hidden
                              \o <<Tok("frame", FormatRows(im, RenderedSize(im)[2], padH))>>
                              \o Restore(tty)
               ELSE /\ draw' = [d1 EXCEPT !.pc = "raised", !.err = ErrName(outcome)]
                    /\ out' = hidden \o Restore(tty)
       ELSE IF InitError(rep, cch) # "ok"
       THEN \* ImageIterator(self, repeat, "", cached) raises
            /\ draw' = [d1 EXCEPT !.pc = "raised", !.err = InitError(rep, cch),
                                  !.lines = DisplayLines(im, padH),
                                  !.prev = image.seek]
            /\ handles' = got.hs
            /\ out' = hidden \o Restore(tty)
            /\ image' = back
       ELSE LET got2 == GetImage(got.hs)
                d2 == [d1 EXCEPT !.lines = DisplayLines(im, padH),
                                 !.prev = image.seek,
                                 !.itImg = got2.h,
                                 !.repeat = rep.v,
                                 !.cached = CachedFlag(rep, cch, image.nf)]
                c == Ctx(d2.repeat, d2.cached, im.nf, im.size,
                         im.pil, outcome)
                r == Resume(NewGen, World(image.seek, got2.hs[got.h].pos), c)
                hs3 == [got2.hs EXCEPT ![got.h].pos = r.w.hpos]
            IN  IF r.res = "frame"
                THEN /\ draw' = [d2 EXCEPT !.pc = "anim", !.g = r.g]
                     /\ handles' = hs3
                     /\ image' = [im EXCEPT !.seek = r.w.seek]
                     /\ out' = hidden \o <<FrameTok(im, r.g.frame, padH)>>
                ELSE /\ draw' = [d2 EXCEPT !.pc = "raised", !.g = r.g,
                                           !.g.gen = "finished",
                                           !.err = ErrName(r.res)]
                     /\ handles' = CloseImage(CloseImage(hs3, got.h), got.h)
                     /\ image' = Unsized([im EXCEPT !.seek = d2.prev], image.dyn)
                     /\ out' = hidden \o <<Tok("down", d2.lines)>> \o Restore(tty)

\* One turn of the frame loop of _display_animated: render the next frame,
\* sleep for the rest of the frame duration, move up and print; or leave
\* the loop at the end of the iteration or on an exception.
DrawFrame(outcome, interrupted) ==
    /\ draw.pc = "anim"
    /\ Len(SelectSeq(out, LAMBDA t : t.t = "frame")) < MaxWrites
    /\ UNCHANGED <<ids, it, req, classes, render_cls, render, renderable,
                   styles, fmt>>
    /\ last' = Note("frame", 0, "")
    /\ LET c == Ctx(draw.repeat, draw.cached, image.nf, image.size,
                    image.pil, outcome)
           r == Resume(draw.g, World(image.seek, handles[draw.img].pos), c)
           hs1 == [handles EXCEPT ![draw.img].pos = r.w.hpos]
           d1 == [draw EXCEPT !.g = r.g]
       IN  CASE r.res = "StopIteration" ->
                  /\ EndAnimated(d1, hs1, "returned", "")
             [] r.res \in {"error", "interrupt"} ->
                  /\ EndAnimated(d1, hs1, "raised", ErrName(r.res))
             [] r.res = "frame" /\ interrupted ->
                  \* KeyboardInterrupt in time.sleep
                  /\ EndAnimated(d1, hs1, "raised", "KeyboardInterrupt")
             [] OTHER ->
                  /\ draw' = d1
                  /\ handles' = hs1
                  /\ image' = [image EXCEPT !.seek = r.w.seek]
                  /\ out' = out \o <<Tok("up", draw.lines - 1),
                                     FrameTok(image, r.g.frame, draw.padH)>>

(***************************************************************************)
(* The Renderable API: class registration                                  *)
(***************************************************************************)
\* The renderable classes of the diamond of the inheritance tests, each with
\* the set of its bases.  Renderable is there from the start.
Hierarchy ==
    [A |-> {"Renderable"}, B |-> {"A"}, C |-> {"A"}, D |-> {"B", "C"}]
ClassNames == DOMAIN Hierarchy
AllClasses == ClassNames \cup {"Renderable"}

\* Namespace classes, of either kind, are numbered 1..MaxNamespaces; 0 is the
\* base (RenderArgs.Namespace, RenderData.Namespace).  Namespace 2 is a
\* subclass of namespace 1, every other one a subclass of the base.
NsKinds == {"Args", "Data"}
Namespaces == 1..MaxNamespaces
NsBase(n) == IF n = 2 THEN 1 ELSE 0
\* Renderable._Data_
RenderableData == -1

\* What a class body may assign to Args and to _Data_: nothing or None, a
\* namespace class, a class that is no namespace, or a value that is no class.
Declarations ==
    {None, Arg("class", 0), Arg("bad", 0)}
    \cup {Arg("ns", n) : n \in Namespaces}

NoClass ==
    [defined |-> FALSE, bases |-> <<>>, mro |-> <<>>,
     Args |-> None, Data |-> None,
     ALL_DEFAULT_ARGS |-> <<>>, RENDER_DATA_MRO |-> <<>>]
RenderableClass ==
    [defined |-> TRUE, bases |-> <<>>, mro |-> <<"Renderable">>,
     Args |-> None, Data |-> Arg("ns", RenderableData),
     ALL_DEFAULT_ARGS |-> <<>>,
     RENDER_DATA_MRO |-> <<<<"Renderable", RenderableData>>>>]
NoClasses ==
    [k \in AllClasses |-> IF k = "Renderable" THEN RenderableClass ELSE NoClass]
Unassociated ==
    [Args |-> [n \in Namespaces \cup {RenderableData} |-> "None"],
     Data |-> [n \in Namespaces \cup {RenderableData} |->
                  IF n = RenderableData THEN "Renderable" ELSE "None"]]

InSeq(x, s) == \E i \in 1..Len(s) : s[i] = x

\* The class a namespace class is found associated with: its own, else the
\* one of the nearest base that has one.
RECURSIVE AssociatedWith(_, _)
AssociatedWith(assoc, n) ==
    IF n = 0 THEN "None"
    ELSE IF assoc[n] # "None" THEN assoc[n]
    ELSE AssociatedWith(assoc, NsBase(n))

\* The linearization without the removal of a class already taken.
RECURSIVE MergeMut(_)
MergeMut(seqs) ==
    IF seqs = <<>> THEN <<>> ELSE Head(seqs) \o MergeMut(Tail(seqs))

\* The merge of the linearization: the first head that is in no tail comes
\* next and is removed from every sequence.
RECURSIVE Merge(_)
Merge(seqs) ==
    LET live == SelectSeq(seqs, LAMBDA s : s # <<>>)
    IN  IF live = <<>> THEN <<>>
        ELSE LET good == {i \in 1..Len(live) :
                            \A j \in 1..Len(live) :
                               ~InSeq(Head(live[i]), Tail(live[j]))}
                 first == CHOOSE i \in good : \A j \in good : i <= j
                 h == Head(live[first])
             IN  <<h>> \o Merge([j \in 1..Len(live) |->
                                   IF Head(live[j]) = h THEN Tail(live[j])
                                   ELSE live[j]])

\* The linearization of class k with the bases listed.
Mro(cs, k, bases) ==
    <<k>> \o Merge([i \in 1..Len(bases) |-> cs[bases[i]].mro] \o <<bases>>)

\* The merged mapping, as the sequence of its <<class, namespace>> entries:
\* the linearization is walked from its last class to its first and every
\* class that declares a namespace contributes its entry.
RECURSIVE Collect(_, _)
Collect(decl, lin) ==
    IF lin = <<>> THEN <<>>
    ELSE Collect(decl, Tail(lin))
         \o (IF decl[Head(lin)].kind = "ns"
             THEN <<<<Head(lin), decl[Head(lin)].v>>>> ELSE <<>>)

\* The class k created with the bases and the declarations given.
NewClass(cs, k, bases, args, data) ==
    LET lin == Mro(cs, k, bases)
    IN  [defined |-> TRUE, bases |-> bases, mro |-> lin,
         Args |-> args, Data |-> data,
         ALL_DEFAULT_ARGS |->
             Collect([c \in AllClasses |-> IF c = k THEN args ELSE cs[c].Args],
                     lin),
         RENDER_DATA_MRO |->
             Collect([c \in AllClasses |-> IF c = k THEN data ELSE cs[c].Data],
                     lin)]

\* The declaration is accepted although its namespace is associated.
DeclErrorMut(assoc, decl) ==
    CASE decl.kind = "bad" -> "TypeError"
      [] decl.kind = "class" -> "RenderableError"
      [] OTHER -> "ok"

\* The error of one declaration, "ok" if it has none.
DeclError(assoc, decl) ==
    CASE decl.kind = "bad" -> "TypeError"
      [] decl.kind = "class" -> "RenderableError"
      [] decl.kind = "ns" /\ AssociatedWith(assoc, decl.v) # "None" ->
            "RenderableError"
      [] OTHER -> "ok"

Associate(assoc, decl, k) ==
    IF decl.kind = "ns" THEN [assoc EXCEPT ![decl.v] = k] ELSE assoc

\* The error of a class body with the declarations given: that of Args
\* comes first.
RegisterError(assocs, args, data) ==
    IF DeclError(assocs.Args, args) # "ok" THEN DeclError(assocs.Args, args)
    ELSE DeclError(assocs.Data, data)

\* class k(*bases): Args = args; _Data_ = data
Register(k, bases, args, data) ==
    /\ ~classes[k].defined
    /\ {bases[i] : i \in 1..Len(bases)} = Hierarchy[k]
    /\ Len(bases) = Cardinality(Hierarchy[k])
    /\ \A i \in 1..Len(bases) : classes[bases[i]].defined
    /\ LET res == RegisterError(render_cls, args, data)
           ns == IF args.kind = "ns" THEN args.v ELSE 0
       IN  /\ last' = Note("class", ns, res)
           /\ IF res = "ok"
              THEN /\ classes' = [classes EXCEPT
                                    ![k] = NewClass(classes, k, bases, args, data)]
                   /\ render_cls' =
                        [Args |-> Associate(render_cls.Args, args, k),
                         Data |-> Associate(render_cls.Data, data, k)]
              ELSE UNCHANGED <<classes, render_cls>>
    /\ UNCHANGED <<image, handles, ids, it, draw, out, req, render,
                   renderable, styles, fmt>>

(***************************************************************************)
(* The Renderable API: one render call                                     *)
(***************************************************************************)
\* No render call yet.
NoRender ==
    [called |-> FALSE, size |-> <<1, 1>>, padding |-> <<0, 0>>,
     iteration |-> FALSE, finalize |-> TRUE, check_size |-> FALSE,
     allow_scroll |-> FALSE, animation |-> FALSE, res |-> "none",
     finalized |-> FALSE, finalizations |-> 0]

\* AlignedPadding.get_padded_size; <<0, 0>> stands for no padding.
PaddedSize(size, padding) ==
    <<Max(size[1], padding[1]), Max(size[2], padding[2])>>

\* The pre-render size check of a render call.
RenderSizeError(size, padding, check_size, allow_scroll, animation) ==
    LET padded == PaddedSize(size, padding)
    IN  /\ check_size \/ animation
        /\ \/ padded[1] > TermCols
           \/ (animation \/ ~allow_scroll) /\ padded[2] > TermLines

\* RenderData.finalize: the finalizer runs unless the data is finalized.
FinalizeData(r) ==
    IF r.finalized THEN r
    ELSE [r EXCEPT !.finalized = TRUE, !.finalizations = @ + 1]

\* The render data is finalized only when the renderer returns.
EndRenderMut(r, finalize) ==
    IF finalize /\ r.res = "ok" THEN FinalizeData(r) ELSE r

\* The end of a render call, on every way out of it.
EndRender(r, finalize) ==
    IF finalize THEN FinalizeData(r) ELSE r

\* _init_render_(renderer, padding=, iteration=, finalize=, check_size=,
\* allow_scroll=, animation=) on a renderable of the render size given;
\* outcome is what the renderer does.
InitRender(size, padding, iteration, finalize, check_size, allow_scroll, animation, outcome) ==
    /\ LET data == [called |-> TRUE, size |-> size, padding |-> padding,
                    iteration |-> iteration, finalize |-> finalize,
                    check_size |-> check_size, allow_scroll |-> allow_scroll,
                    animation |-> animation, res |-> "none",
                    finalized |-> FALSE, finalizations |-> 0]
           res == IF RenderSizeError(size, padding, check_size, allow_scroll,
                                     animation)
                  THEN "RenderSizeOutofRangeError"
                  ELSE outcome
       IN  /\ render' = EndRender([data EXCEPT !.res = res], finalize)
           /\ last' = Note("_init_render_", 0, res)
    /\ UNCHANGED <<image, handles, ids, it, draw, out, req, classes,
                   render_cls, renderable, styles, fmt>>

\* render_data.finalize() by the caller of the render call.
Finalize ==
    /\ render.called
    /\ render' = FinalizeData(render)
    /\ last' = Note("finalize", 0, "ok")
    /\ UNCHANGED <<image, handles, ids, it, draw, out, req, classes,
                   render_cls, renderable, styles, fmt>>

(***************************************************************************)
(* The Renderable API: seek and tell                                       *)
(***************************************************************************)
\* FrameCount.INDEFINITE, as a frame count
Indefinite == 0
\* Seek.START, Seek.CURRENT, Seek.END
Whences == {"START", "CURRENT", "END"}

\* A renderable: its frame count, its seek position (tell()) and the
\* arguments of the last seek.
NewRenderable(frame_count) ==
    [frame_count |-> frame_count, pos |-> 0, offset |-> 0, whence |-> "START"]

\* Seek.END taken as the frame count instead of the last frame.
SeekTargetMut(r, offset, whence) ==
    CASE whence = "START" -> offset
      [] whence = "CURRENT" -> r.pos + offset
      [] whence = "END" -> r.frame_count + offset

\* The frame number a seek designates.
SeekTarget(r, offset, whence) ==
    CASE whence = "START" -> offset
      [] whence = "CURRENT" -> r.pos + offset
      [] whence = "END" -> r.frame_count - 1 + offset

\* An indefinite frame count is not refused.
SeekErrorMut(r, offset, whence) ==
    IF 0 <= SeekTarget(r, offset, whence)
       /\ SeekTarget(r, offset, whence) < Max(r.frame_count, 1)
    THEN "ok" ELSE "ValueError"

\* The error of a seek, "ok" if it has none.
SeekError(r, offset, whence) ==
    IF r.frame_count = Indefinite THEN "IndefiniteSeekError"
    ELSE IF 0 <= SeekTarget(r, offset, whence)
            /\ SeekTarget(r, offset, whence) < r.frame_count
    THEN "ok" ELSE "ValueError"

\* renderable.seek(offset, whence); the frame number returned is noted.
RenderableSeek(offset, whence) ==
    /\ LET res == SeekError(renderable, offset, whence)
           target == SeekTarget(renderable, offset, whence)
       IN  /\ renderable' = [renderable EXCEPT
                               !.pos = IF res = "ok" THEN target ELSE @,
                               !.offset = offset, !.whence = whence]
           /\ last' = Note("renderable.seek",
                           IF res = "ok" THEN target ELSE -1, res)
    /\ UNCHANGED <<image, handles, ids, it, draw, out, req, classes,
                   render_cls, render, styles, fmt>>

(***************************************************************************)
(* Render methods (BaseImage.set_render_method)                            *)
(***************************************************************************)
\* Render style classes: Style implements the render methods LINES and
\* WHOLE, SubStyle is a subclass of it that declares nothing, and Plain is
\* a style with a single way of rendering.  Each is a subclass of
\* BaseImage through its parents.
StyleClasses == {"Style", "SubStyle", "Plain"}
StyleParent(c) == IF c = "SubStyle" THEN "Style" ELSE "BaseImage"
\* One image of each of the first two classes.
StyleImages == {"image", "sub_image"}
StyleOf(t) ==
    CASE t = "image" -> "Style"
      [] t = "sub_image" -> "SubStyle"
      [] OTHER -> t

\* cls._render_methods and cls._default_render_method, by attribute lookup
RenderMethods(c) == IF c = "Plain" THEN {} ELSE {"lines", "whole"}
DefaultRenderMethod(c) == IF c = "Plain" THEN "None" ELSE "lines"
\* str.lower
Lower(m) == IF m = "WHOLE" THEN "whole" ELSE m
\* The values given for method: None, strings and a value of another type.
MethodArgs ==
    {None, Arg("bad", 0)}
    \cup {Arg("str", m) : m \in {"lines", "whole", "WHOLE", "chunks"}}

\* The _render_method attribute each class and each image has of its own
\* ("": no such attribute), the arguments of the last call, and for every
\* class and image what the last call made via it that raised nothing did:
\* the method it set, "unset" for a reset, "" if there was no such call.
NoStyles ==
    [attr |-> [t \in StyleClasses \cup StyleImages |->
                 IF t = "Style" THEN "lines" ELSE ""],
     who |-> "Style", method |-> None,
     via |-> [t \in StyleClasses \cup StyleImages |-> ""]]

\* cls._render_method, by attribute lookup through the parents
RECURSIVE ClassRenderMethod(_, _)
ClassRenderMethod(st, c) ==
    IF c = "BaseImage" THEN "None"
    ELSE IF st.attr[c] # "" THEN st.attr[c]
    ELSE ClassRenderMethod(st, StyleParent(c))

\* t._render_method for a class or an image t
RenderMethod(st, t) ==
    IF t \in StyleImages /\ st.attr[t] # "" THEN st.attr[t]
    ELSE ClassRenderMethod(st, StyleOf(t))

SetRenderMethodError(t, method) ==
    IF method.kind \notin {"none", "str"} THEN "TypeError"
    ELSE IF method.kind = "str" /\ Lower(method.v) \notin RenderMethods(StyleOf(t))
    THEN "ValueError"
    ELSE "ok"

\* The reset via an image sets the default, as the reset via a class does.
NewAttrMut(st, t, method) ==
    IF method.kind = "none"
    THEN IF RenderMethods(StyleOf(t)) # {}
         THEN DefaultRenderMethod(StyleOf(t)) ELSE st.attr[t]
    ELSE method.v

\* The attribute of t after a call that raises nothing.
NewAttr(st, t, method) ==
    IF method.kind = "none"
    THEN IF t \in StyleImages THEN ""
         ELSE IF RenderMethods(t) # {} THEN DefaultRenderMethod(t)
         ELSE st.attr[t]
    ELSE method.v

\* t.set_render_method(method) for a class or an image t
SetRenderMethod(t, method) ==
    /\ LET res == SetRenderMethodError(t, method)
       IN  /\ last' = Note("set_render_method", 0, res)
           /\ styles' =
                IF res = "ok"
                THEN [styles EXCEPT
                        !.attr[t] = NewAttr(styles, t, method),
                        !.via[t] = IF method.kind = "none" THEN "unset"
                                   ELSE method.v,
                        !.who = t, !.method = method]
                ELSE [styles EXCEPT !.who = t, !.method = method]
    /\ UNCHANGED <<image, handles, ids, it, draw, out, req, classes,
                   render_cls, render, renderable, fmt>>

(***************************************************************************)
(* The format specifier (BaseImage._check_format_spec)                     *)
(***************************************************************************)
\* A format specifier is a sequence of tokens: a horizontal alignment, the
\* digits 0 and 5, the dot, a vertical alignment, the hash, a hex color of
\* six characters, the plus and a character of no meaning to the pattern.
FmtTokens == {"<", "0", "5", ".", "^", "#", "ffffff", "+", "x"}
FmtSpecs == UNION {[1..n -> FmtTokens] : n \in 0..MaxSpecLen}

IsDigit(t) == t \in {"0", "5"}
Drop(s, n) == SubSeq(s, n + 1, Len(s))
Starts(s, t) == s # <<>> /\ Head(s) = t

\* \d+ : the number of digits s begins with
RECURSIVE DigitRun(_)
DigitRun(s) ==
    IF s # <<>> /\ IsDigit(Head(s)) THEN 1 + DigitRun(Tail(s)) ELSE 0

\* int(digits), the digits being the first n tokens of s
RECURSIVE DigitsValue(_, _)
DigitsValue(s, n) ==
    IF n = 0 THEN 0
    ELSE 10 * DigitsValue(s, n - 1) + (IF s[n] = "5" THEN 5 ELSE 0)

RECURSIVE Pow10(_)
Pow10(n) == IF n = 0 THEN 1 ELSE 10 * Pow10(n - 1)

\* [0-9a-fA-F]{6} : the number of tokens of a hex color s begins with, 0 if
\* it begins with none
HexRun(s) ==
    IF Starts(s, "ffffff") THEN 1
    ELSE IF Len(s) >= 6 /\ \A i \in 1..6 : IsDigit(s[i]) THEN 6
    ELSE 0

\* ([<|>])?(\d+)? : the groups and what follows them
MatchHorizontal(s) ==
    LET a == IF Starts(s, "<") THEN 1 ELSE 0
        n == DigitRun(Drop(s, a))
    IN  [h_align |-> IF a = 1 THEN "<" ELSE "None",
         width |-> IF n = 0 THEN Arg("none", 0)
                   ELSE Arg("str", DigitsValue(Drop(s, a), n)),
         rest |-> Drop(s, a + n)]

\* (\.([-^_])?(\d+)?)?
MatchVertical(s) ==
    IF ~Starts(s, ".")
    THEN [dot |-> FALSE, v_align |-> "None", height |-> Arg("none", 0),
          rest |-> s]
    ELSE LET a == IF Starts(Tail(s), "^") THEN 1 ELSE 0
             n == DigitRun(Drop(s, 1 + a))
         IN  [dot |-> TRUE, v_align |-> IF a = 1 THEN "^" ELSE "None",
              height |-> IF n = 0 THEN Arg("none", 0)
                         ELSE Arg("str", DigitsValue(Drop(s, 1 + a), n)),
              rest |-> Drop(s, 1 + a + n)]

\* (#(\.\d+|[0-9a-fA-F]{6}|#)?)? : group 7 (alpha), group 8
\* (threshold_or_bg) as its kind and value, and what follows
MatchAlpha(s, double) ==
    IF ~Starts(s, "#")
    THEN [alpha |-> FALSE, kind |-> "none", v |-> <<>>, rest |-> s]
    ELSE LET t == Tail(s)
             n == IF Starts(t, ".") THEN DigitRun(Tail(t)) ELSE 0
         IN  IF n > 0
             THEN [alpha |-> TRUE, kind |-> "threshold",
                   v |-> <<DigitsValue(Tail(t), n), Pow10(n)>>,
                   rest |-> Drop(t, 1 + n)]
             ELSE IF HexRun(t) > 0
             THEN [alpha |-> TRUE, kind |-> "hex",
                   v |-> SubSeq(t, 1, HexRun(t)), rest |-> Drop(t, HexRun(t))]
             ELSE IF double /\ Starts(t, "#")
             THEN [alpha |-> TRUE, kind |-> "#", v |-> <<>>, rest |-> Tail(t)]
             ELSE [alpha |-> TRUE, kind |-> "none", v |-> <<>>, rest |-> t]

\* (\+(.+))? : the style-specific part and what follows
MatchStyle(s) ==
    IF Starts(s, "+") /\ Len(s) >= 2
    THEN [style |-> Tail(s), rest |-> <<>>]
    ELSE [style |-> <<>>, rest |-> s]

\* _FORMAT_SPEC.fullmatch(spec): the groups, and whether it matches
FormatMatch(spec) ==
    LET h == MatchHorizontal(spec)
        v == MatchVertical(h.rest)
        a == MatchAlpha(v.rest, TRUE)
        s == MatchStyle(a.rest)
    IN  [ok |-> s.rest = <<>>, h_align |-> h.h_align, width |-> h.width,
         v_align |-> v.v_align, height |-> v.height, alpha |-> a.alpha,
         kind |-> a.kind, v |-> a.v, style |-> s.style]

\* _NO_VERTICAL_SPEC.fullmatch(spec)
NoVerticalMatch(spec) ==
    LET h == MatchHorizontal(spec)
    IN  /\ Starts(h.rest, ".")
        /\ MatchAlpha(Tail(h.rest), FALSE).rest = <<>>

\* The default alpha threshold.
DefaultAlpha == [kind |-> "threshold", v |-> <<40, 255>>]

\* A lone hash stands for the default background color, as two do.
AlphaOfMut(m) ==
    IF ~m.alpha THEN DefaultAlpha
    ELSE IF m.kind \in {"none", "#"} THEN [kind |-> "bg", v |-> <<"#">>]
    ELSE IF m.kind = "hex" THEN [kind |-> "bg", v |-> <<"#">> \o m.v]
    ELSE [kind |-> "threshold", v |-> m.v]

\* The alpha of a match: None, a color string or a float.
AlphaOf(m) ==
    IF ~m.alpha THEN DefaultAlpha
    ELSE IF m.kind = "none" THEN [kind |-> "None", v |-> <<>>]
    ELSE IF m.kind = "#" THEN [kind |-> "bg", v |-> <<"#">>]
    ELSE IF m.kind = "hex" THEN [kind |-> "bg", v |-> <<"#">> \o m.v]
    ELSE [kind |-> "threshold", v |-> m.v]

\* The outcome of _check_format_spec(spec) of a class that does not
\* override _check_style_format_spec.
CheckFormatSpecError(spec) ==
    LET m == FormatMatch(spec)
    IN  IF ~m.ok \/ NoVerticalMatch(spec) THEN "ValueError"
        ELSE IF m.width.kind = "str" /\ m.width.v <= 0 THEN "ValueError"
        ELSE IF m.height.kind = "str" /\ m.height.v <= 0 THEN "ValueError"
        ELSE IF m.style # <<>> THEN "StyleError"
        ELSE "ok"

\* No format specifier checked yet; spec is the one to check.
NewFormat(spec) ==
    [spec |-> spec, checked |-> FALSE, res |-> "none",
     alpha |-> [kind |-> "None", v |-> <<>>]]
NoFormat == NewFormat(<<>>)

\* cls._check_format_spec(spec)
CheckFormatSpec ==
    /\ ~fmt.checked
    /\ LET res == CheckFormatSpecError(fmt.spec)
       IN  /\ fmt' = [fmt EXCEPT !.checked = TRUE, !.res = res,
                                 !.alpha = IF res = "ok"
                                           THEN AlphaOf(FormatMatch(fmt.spec))
                                           ELSE @]
           /\ last' = Note("_check_format_spec", 0, res)
    /\ UNCHANGED <<image, handles, ids, it, draw, out, req, classes,
                   render_cls, render, renderable, styles>>

(***************************************************************************)
(* str(image) and format(image, spec)                                      *)
(***************************************************************************)
\* The PIL images the render operations may have opened.
MaxOpened == 2

\* self._renderer(self._render_image, alpha) with check_size false, for the
\* operation op: a dynamic size gets a concrete value, the image is got and
\* rendered (conv: the render closes it after converting it), and the
\* finally clause assigns the dynamic size back.
RenderOnce(op, conv, outcome) ==
    LET sized == Sized(image)
        got == GetImage(handles)
    IN  /\ image' = Unsized(sized.image, image.dyn)
        /\ IF sized.res # "ok"
           THEN /\ last' = Note(op, 0, sized.res)
                /\ handles' = handles
           ELSE /\ last' = Note(op, 0, IF outcome = "ok" THEN "ok"
                                       ELSE ErrName(outcome))
                /\ handles' = IF conv THEN CloseImage(got.hs, got.h)
                              ELSE got.hs

\* str(image)
Str(conv, outcome) ==
    /\ draw.pc # "anim"
    /\ Len(handles) < MaxOpened
    /\ RenderOnce("str", conv, outcome)
    /\ UNCHANGED <<ids, it, draw, out, req, classes, render_cls, render,
                   renderable, styles, fmt>>

\* format(image, spec)
Format(spec, conv, outcome) ==
    /\ draw.pc # "anim"
    /\ Len(handles) < MaxOpened
    /\ IF CheckFormatSpecError(spec) # "ok"
       THEN /\ last' = Note("format", 0, CheckFormatSpecError(spec))
            /\ UNCHANGED <<image, handles>>
       ELSE RenderOnce("format", conv, outcome)
    /\ UNCHANGED <<ids, it, draw, out, req, classes, render_cls, render,
                   renderable, styles, fmt>>

(***************************************************************************)
(* Specifications                                                          *)
(***************************************************************************)

\* No class but Renderable is registered and nothing is rendered.
NoRenderable ==
    /\ classes = NoClasses
    /\ render_cls = Unassociated
    /\ render = NoRender
    /\ renderable = NewRenderable(1)
    /\ styles = NoStyles
    /\ fmt = NoFormat

InitWith(idset, sizes, counts) ==
    /\ \E nf \in counts, pil \in BOOLEAN, sz \in sizes :
         \E sk \in 0..(nf - 1) :
           /\ image = [nf |-> nf, pil |-> pil, size |-> sz, seek |-> sk,
                       h_allow |-> 0, v_allow |-> 2, fit_to_width |-> FALSE,
                       resizes |-> 0, dyn |-> "", ori |-> <<1, 2>>,
                       cell |-> <<1, 2>>, pr |-> Frac(1, 1)]
           /\ handles = IF pil THEN <<[open |-> TRUE, pos |-> sk]>> ELSE <<>>
    /\ ids = idset
    /\ it = [i \in ItIds |-> NoIterator]
    /\ last = Note("init", 0, "ok")
    /\ draw = NoDraw
    /\ out = <<>>
    /\ req = NoRequest
    /\ NoRenderable

Init == InitWith({1}, {<<1, 1>>}, FrameCounts)

IterNext ==
    \/ \E i \in ids, rep \in RepeatArgs, cch \in CachedArgs : Create(i, rep, cch)
    \/ \E i \in ids, outcome \in Outcomes : Next(i, outcome)
    \/ \E i \in ids : Close(i)
    \/ \E i \in ids, pos \in -1..MaxFrames : Seek(i, pos)
    \/ \E sz \in IterSizes : Resize(sz)

Spec == Init /\ [][IterNext]_vars

\* Two iterators over the same image, and direct seeks of the image.
InitPair == InitWith({1, 2}, {<<1, 1>>}, {2})

PairRepeats == {Arg("int", 1), Arg("int", 2)}

PairNext ==
    \/ \E i \in ids, rep \in PairRepeats : Create(i, rep, Arg("bool", 1))
    \/ \E i \in ids : Next(i, "ok")
    \/ \E i \in ids : Close(i)
    \/ \E i \in ids, pos \in 0..1 : Seek(i, pos)
    \/ \E pos \in 0..1 : ImageSeek(pos)

SpecPair == InitPair /\ [][PairNext]_vars

\* One draw call on an image of any of the sizes.
\* How the image drawn was sized: by set_size(width, h_allow=, v_allow=)
\* or by the assignment size = width, on an original of ori pixels.
DrawSetup(ori, by, width, h_allow, v_allow) ==
    [ori |-> ori, by |-> by, width |-> width, h_allow |-> h_allow,
     v_allow |-> v_allow]

DrawSetups ==
    {DrawSetup(<<1, 2>>, "set_size", Arg("int", 1), 0, 2),
     DrawSetup(<<1, 2>>, "set_size", Arg("int", 2), 0, 2),
     DrawSetup(<<1, 2>>, "size", Arg("FIT", 0), 0, 2),
     DrawSetup(<<1, 6>>, "set_size", Arg("int", 1), 0, 2),
     DrawSetup(<<1, 6>>, "set_size", Arg("FIT_TO_WIDTH", 0), 0, 2),
     DrawSetup(<<1, 6>>, "size", Arg("FIT_TO_WIDTH", 0), 0, 2),
     DrawSetup(<<6, 2>>, "set_size", Arg("int", 3), 0, 2),
     DrawSetup(<<6, 2>>, "set_size", Arg("int", 2), 1, 0)}

Setup(im, u) ==
    IF u.by = "size" THEN SizeSetterOf(im, u.width).image
    ELSE SetSizeOf(im, u.width, None, Arg("int", u.h_allow),
                   Arg("int", u.v_allow), Arg("none", <<>>)).image

InitDraw ==
    /\ \E nf \in FrameCounts, pil \in BOOLEAN, u \in DrawSetups :
         \E sk \in 0..(nf - 1) :
           /\ image = Setup([nf |-> nf, pil |-> pil, size |-> <<0, 0>>,
                             seek |-> sk, h_allow |-> 0, v_allow |-> 2,
                             fit_to_width |-> FALSE, resizes |-> 0,
                             dyn |-> "FIT", ori |-> u.ori, cell |-> <<1, 2>>,
                             pr |-> Frac(1, 1)], u)
           /\ handles = IF pil THEN <<[open |-> TRUE, pos |-> sk]>> ELSE <<>>
    /\ ids = {}
    /\ it = [i \in ItIds |-> NoIterator]
    /\ last = Note("init", 0, "ok")
    /\ draw = NoDraw
    /\ out = <<>>
    /\ req = NoRequest
    /\ NoRenderable

DrawNext ==
    \/ \E tty \in BOOLEAN, early \in {"ok", "TypeError"}, rep \in RepeatArgs,
          cch \in DrawCached, styleOK \in BOOLEAN, padH \in PadHeights,
          sc \in {<<FALSE, TRUE>>, <<TRUE, FALSE>>}, outcome \in Outcomes :
          DrawBegin(tty, early, TRUE, rep, cch, styleOK, padH, sc[1], sc[2],
                    FALSE, outcome)
    \/ \E tty \in BOOLEAN, early \in {"ok", "TypeError"}, styleOK \in BOOLEAN,
          padH \in PadHeights, scroll \in BOOLEAN, check \in BOOLEAN,
          conv \in BOOLEAN, outcome \in Outcomes :
          DrawBegin(tty, early, FALSE, Arg("int", -1), Arg("int", 100),
                    styleOK, padH, scroll, check, conv, outcome)
    \/ \E outcome \in Outcomes, interrupted \in BOOLEAN :
          DrawFrame(outcome, interrupted)

SpecDraw == InitDraw /\ [][DrawNext]_vars

\* Sizing calls on an image of any original size, cell size and pixel ratio.
CellSizes == {<<1, 2>>, <<2, 3>>}
PixelRatios == {Frac(1, 1), Frac(1, 2)}

InitSize ==
    /\ \E ow \in 1..MaxPx, oh \in 1..MaxPx, cell \in CellSizes, pr \in PixelRatios :
         image = [nf |-> 2, pil |-> FALSE, size |-> <<0, 0>>, seek |-> 0,
                  h_allow |-> 0, v_allow |-> 2, fit_to_width |-> FALSE,
                  resizes |-> 0, dyn |-> "FIT", ori |-> <<ow, oh>>,
                  cell |-> cell, pr |-> pr]
    /\ handles = <<>>
    /\ ids = {}
    /\ it = [i \in ItIds |-> NoIterator]
    /\ last = Note("init", 0, "ok")
    /\ draw = NoDraw
    /\ out = <<>>
    /\ req = NoRequest
    /\ NoRenderable

\* <<width, height>> of the calls with valid arguments
AxisRequests ==
    {<<Arg(m, 0), None>> : m \in SizeMembers}
    \cup {<<None, None>>}
    \cup {<<Arg("int", w), None>> : w \in 1..MaxCells}
    \cup {<<None, Arg("int", h)>> : h \in 1..MaxCells}
\* <<h_allow, v_allow, maxsize>>
Limits ==
    {<<0, 2, Arg("none", <<>>)>>, <<1, 3, Arg("none", <<>>)>>,
     <<2, 0, Arg("none", <<>>)>>}
    \cup {<<1, 3, Arg("tuple", <<c, l>>)>> : c \in 1..MaxAvail, l \in 1..MaxAvail}
\* calls with one invalid argument: <<width, height, h_allow, v_allow, maxsize>>
BadRequests ==
    {<<Arg("int", 1), Arg("int", 1), Arg("int", 0), Arg("int", 2), Arg("none", <<>>)>>,
     <<Arg("bad", 0), None, Arg("int", 0), Arg("int", 2), Arg("none", <<>>)>>,
     <<None, Arg("int", 0), Arg("int", 0), Arg("int", 2), Arg("none", <<>>)>>,
     <<Arg("int", 1), None, Arg("bad", 0), Arg("int", 2), Arg("none", <<>>)>>,
     <<Arg("int", 1), None, Arg("int", 1), Arg("int", -1), Arg("none", <<>>)>>,
     <<Arg("FIT", 0), None, Arg("int", 1), Arg("int", 0), Arg("bad", <<>>)>>,
     <<Arg("FIT", 0), None, Arg("int", 1), Arg("int", 0), Arg("tuple", <<1>>)>>,
     <<Arg("FIT", 0), None, Arg("int", 1), Arg("int", 0), Arg("tuple", <<0, 1>>)>>}

SizeNext ==
    \/ \E wh \in AxisRequests, lim \in Limits :
          SetSize(wh[1], wh[2], Arg("int", lim[1]), Arg("int", lim[2]), lim[3])
    \/ \E b \in BadRequests : SetSize(b[1], b[2], b[3], b[4], b[5])
    \/ \E value \in {Arg(m, 0) : m \in SizeMembers} \cup {Arg("bad", 0)} :
          SizeSetter(value)

SpecSize == InitSize /\ [][SizeNext]_vars

\* The image of the specifications of the Renderable API, which leave it alone.
IdleImage ==
    /\ image = [nf |-> 2, pil |-> FALSE, size |-> <<1, 1>>, seek |-> 0,
                h_allow |-> 0, v_allow |-> 2, fit_to_width |-> FALSE,
                resizes |-> 0, dyn |-> "", ori |-> <<1, 2>>,
                cell |-> <<1, 2>>, pr |-> Frac(1, 1)]
    /\ handles = <<>>
    /\ ids = {}
    /\ it = [i \in ItIds |-> NoIterator]
    /\ last = Note("init", 0, "ok")
    /\ draw = NoDraw
    /\ out = <<>>
    /\ req = NoRequest

\* The classes of the hierarchy are created, each once its bases exist, with
\* its bases in any order and any declarations.
InitMeta == IdleImage /\ NoRenderable

Orders(S) ==
    {s \in [1..Cardinality(S) -> S] : \A i, j \in DOMAIN s : s[i] = s[j] => i = j}

MetaNext ==
    \E k \in ClassNames, args \in Declarations, data \in Declarations :
       \E bases \in Orders(Hierarchy[k]) : Register(k, bases, args, data)

SpecMeta == InitMeta /\ [][MetaNext]_vars

\* Render calls on a renderable of any of the render sizes.
RenderSizes == {<<1, 1>>, <<TermCols + 1, 1>>, <<1, TermLines + 1>>}
Paddings == {<<0, 0>>, <<TermCols + 1, 1>>, <<1, TermLines + 1>>}

InitRenderCall == IdleImage /\ NoRenderable

RenderNext ==
    \/ \E size \in RenderSizes, padding \in Paddings, iteration \in BOOLEAN,
          finalize \in BOOLEAN, check_size \in BOOLEAN,
          allow_scroll \in BOOLEAN, animation \in BOOLEAN,
          outcome \in {"ok", "error"} :
          InitRender(size, padding, iteration, finalize, check_size,
                     allow_scroll, animation, outcome)
    \/ Finalize

SpecRender == InitRenderCall /\ [][RenderNext]_vars

\* Everything but the renderable, the styles and the format specifier.
Idle ==
    /\ IdleImage
    /\ classes = NoClasses
    /\ render_cls = Unassociated
    /\ render = NoRender

\* Seeks of a renderable of any frame count.
InitSeek ==
    /\ Idle
    /\ \E n \in {Indefinite} \cup 1..MaxFrames : renderable = NewRenderable(n)
    /\ styles = NoStyles
    /\ fmt = NoFormat

SeekNext ==
    \E offset \in -MaxFrames..MaxFrames, whence \in Whences :
       RenderableSeek(offset, whence)

SpecSeek == InitSeek /\ [][SeekNext]_vars

\* Calls of set_render_method via the style classes and their images.
InitStyles ==
    /\ Idle
    /\ renderable = NewRenderable(1)
    /\ styles = NoStyles
    /\ fmt = NoFormat

StylesNext ==
    \E t \in StyleClasses \cup StyleImages, method \in MethodArgs :
       SetRenderMethod(t, method)

SpecStyles == InitStyles /\ [][StylesNext]_vars

\* The check of any format specifier.
InitFormat ==
    /\ Idle
    /\ renderable = NewRenderable(1)
    /\ styles = NoStyles
    /\ \E spec \in FmtSpecs : fmt = NewFormat(spec)

FormatNext == CheckFormatSpec

SpecFormat == InitFormat /\ [][FormatNext]_vars

\* The render operations on an image of any of the sizes: str, format,
\* creating an iterator and one draw call, in any order.
OpSpecs == {<<>>, <<"0">>, <<"+", "x">>}
OpRepeats == {Arg("int", 0), Arg("int", 1)}

InitOps == InitDraw

OpsNext ==
    \/ \E conv \in BOOLEAN, outcome \in Outcomes : Str(conv, outcome)
    \/ \E spec \in OpSpecs, conv \in BOOLEAN, outcome \in Outcomes :
          Format(spec, conv, outcome)
    \/ \E rep \in OpRepeats :
          draw.pc # "anim" /\ Create(1, rep, Arg("bool", 0))
    \/ \E early \in {"ok", "TypeError"}, rep \in OpRepeats,
          styleOK \in BOOLEAN, sc \in {<<FALSE, TRUE>>, <<TRUE, FALSE>>},
          outcome \in Outcomes :
          DrawBegin(FALSE, early, TRUE, rep, Arg("bool", 0), styleOK, 0,
                    sc[1], sc[2], FALSE, outcome)
    \/ \E styleOK \in BOOLEAN, scroll \in BOOLEAN, check \in BOOLEAN,
          outcome \in Outcomes :
          DrawBegin(FALSE, "ok", FALSE, Arg("int", -1), Arg("int", 100),
                    styleOK, 0, scroll, check, FALSE, outcome)
    \/ \E outcome \in Outcomes, interrupted \in BOOLEAN :
          DrawFrame(outcome, interrupted)

SpecOps == InitOps /\ [][OpsNext]_vars


(***************************************************************************)
(* Properties of the iterator                                              *)
(***************************************************************************)
\* The step is an advance of iterator i that returned a frame.
EmitStep(i) ==
    /\ last' = Note("next", i, "frame")
    /\ it'[i].cnt = it[i].cnt + 1

\* C1: once an iterator is closed (by close(), by exhaustion or by an
\* error), it stays closed whatever is called on it, and every advance
\* raises StopIteration and nothing else.
C1_ClosedAdvanceStops ==
    [][\A i \in ItIds :
         it[i].st = "closed" =>
           /\ it'[i].st = "closed"
           /\ (last'.op = "next" /\ last'.id = i)
                 => last'.res = "StopIteration"]_vars

\* An iterator closed by close() was advanced and raised StopIteration.
C1_Witness ==
    /\ it[1].st = "closed" /\ it[1].how = "closed" /\ it[1].cnt > 0
    /\ last = Note("next", 1, "StopIteration")

\* C2 (state part): an iterator never sought has emitted frame numbers
\* 0, 1, ..., n-1, 0, 1, ... in this order, at most repeat * n of them when
\* repeat > 0; it is exhausted only after exactly repeat * n frames, and
\* never when repeat < 0.
C2_Order ==
    \A i \in ItIds :
      (it[i].st # "absent" /\ ~it[i].sought) =>
        /\ it[i].cnt > 0 => it[i].g.frame.off = (it[i].cnt - 1) % image.nf
        /\ it[i].repeat > 0 => it[i].cnt <= it[i].repeat * image.nf
        /\ it[i].how = "exhausted" =>
             it[i].repeat > 0 /\ it[i].cnt = it[i].repeat * image.nf

\* C2 (step part): the first frame is frame 0 whatever the image's seek
\* position is, and the advance after the last frame of the last loop ends
\* the iteration.
C2_Steps ==
    \A i \in ItIds :
      /\ (it[i].g.gen = "unstarted" /\ EmitStep(i)) =>
            it'[i].g.frame.off = 0 /\ image'.seek = 0
      /\ (/\ it[i].st = "open" /\ ~it[i].sought /\ it[i].how = ""
          /\ it[i].repeat > 0 /\ it[i].cnt = it[i].repeat * image.nf
          /\ last'.op = "next" /\ last'.id = i /\ it'[i] # it[i]) =>
            last'.res = "StopIteration" /\ it'[i].st = "closed"

\* C2: the two parts together.
C2_RepeatCount == []C2_Order /\ [][C2_Steps]_vars

\* Two full loops over three frames, started away from frame 0, then the end.
C2_Witness ==
    /\ it[1].how = "exhausted" /\ ~it[1].sought
    /\ it[1].repeat = 2 /\ image.nf = 3 /\ it[1].cnt = 6

\* The iterator has started and its generator is suspended at a yield.
Active(i) == it[i].st = "open" /\ it[i].g.gen \in {"y1", "y2"}

C4_OncePerOffset ==
    \A i \in ItIds :
      (it[i].cached /\ ~it[i].sought /\ ~it[i].resized /\ it[i].cnt > 0) =>
        /\ it[i].g.renders = Min(it[i].cnt, image.nf)
        /\ it[i].g.frame.ser = it[i].g.frame.off + 1

\* C4 (step part): with caching, visiting a frame number last rendered at
\* another size renders it again at the current size and stores the new
\* frame and the new size hash in its cache slot.
C4_Rerender ==
    \A i \in ItIds :
      (it[i].cached /\ EmitStep(i)
       /\ it[i].seen[it'[i].g.frame.off + 1] # NoFrame
       /\ it[i].seen[it'[i].g.frame.off + 1].size # image.size) =>
         /\ it'[i].g.renders = it[i].g.renders + 1
         /\ it'[i].g.frame.size = image.size
         /\ it'[i].g.cache[it'[i].g.frame.off + 1] =
               <<it'[i].g.frame, SizeHash(image.size)>>

\* C4: the two parts together.
C4_CacheReuse == []C4_OncePerOffset /\ [][C4_Rerender]_vars

\* The whole second loop came from the cache.
C4_Witness ==
    /\ it[1].cached /\ ~it[1].sought /\ ~it[1].resized
    /\ it[1].cnt = 2 * image.nf /\ it[1].g.renders = image.nf
    /\ it[1].g.gen = "y2"

\* The frame number emitted by the step was rendered before by this
\* iterator, last at the current rendered size.
RevisitSameSize(i) ==
    /\ it[i].seen[it'[i].g.frame.off + 1] # NoFrame
    /\ it[i].seen[it'[i].g.frame.off + 1].size = image.size

\* The step returned the frame last rendered for that frame number and
\* rendered nothing.
CacheHit(i) ==
    /\ it'[i].g.frame = it[i].seen[it'[i].g.frame.off + 1]
    /\ it'[i].g.renders = it[i].g.renders

\* The step rendered the frame and stored it in its cache slot.
CacheFill(i) ==
    /\ it'[i].g.renders = it[i].g.renders + 1
    /\ it'[i].g.cache[it'[i].g.frame.off + 1] =
          <<it'[i].g.frame, SizeHash(image.size)>>

\* C5 as claimed: with caching, on every loop, an advance that revisits a
\* frame number at an unchanged size is a cache hit, and any other advance
\* renders and fills the slot.
C5_AnyLoopHit ==
    [][\A i \in ItIds :
         (it[i].cached /\ EmitStep(i)) =>
            IF RevisitSameSize(i) THEN CacheHit(i) ELSE CacheFill(i)]_vars

\* C5 amended: the cache is consulted only once the first loop has ended;
\* during the first loop every advance renders and fills the slot.
C5_LaterLoopHit ==
    [][\A i \in ItIds :
         (it[i].cached /\ EmitStep(i)) =>
            IF RevisitSameSize(i) /\ it'[i].g.gen = "y2"
            THEN CacheHit(i) ELSE CacheFill(i)]_vars

\* Frames 0, 1, 2, then 0 from the cache, then a seek back to 0, and frame
\* 0 came from the cache again.
C5_Witness ==
    /\ it[1].cached /\ it[1].sought /\ it[1].pend = -1
    /\ image.nf = 3 /\ it[1].cnt = 5 /\ it[1].g.renders = 3
    /\ it[1].g.frame.off = 0 /\ it[1].g.frame.ser = 1
    /\ last = Note("next", 1, "frame")

\* C8: each iterator is, at every moment, in the state it would be in had
\* it run alone with the same calls: same frames emitted, same position,
\* same loop count, and open or closed alike.
C8_Independent ==
    \A i \in ItIds :
      /\ it[i].st = it[i].ast
      /\ it[i].g = it[i].ag

\* One iterator is exhausted; the other, over the same PIL image, still
\* runs and has just emitted its second frame.
C8_Witness ==
    /\ image.pil
    /\ it[1].how = "exhausted"
    /\ it[2].st = "open" /\ it[2].cnt = 2
    /\ last = Note("next", 2, "frame")

(***************************************************************************)
(* Properties of draw                                                      *)
(***************************************************************************)
Toks(t) == {j \in 1..Len(out) : out[j].t = t}

DrawDone == draw.pc \in {"returned", "raised"}

\* C6: the cursor is hidden at most once and only on a tty, as the very
\* first thing written; once the call is over, a hidden cursor has been
\* shown again exactly once, as the very last thing written and right after
\* the color reset, so after every frame write; on a non-tty neither
\* sequence is ever written.
C6_CursorRestored ==
    /\ Cardinality(Toks("hide")) <= 1
    /\ Toks("hide") \subseteq {1}
    /\ ~draw.tty => Toks("hide") = {} /\ Toks("show") = {}
    /\ ~DrawDone => Toks("show") = {}
    /\ (DrawDone /\ Toks("hide") # {}) =>
          /\ Toks("show") = {Len(out)}
          /\ Toks("reset") = {Len(out) - 1}
    /\ Toks("hide") = {} => Toks("show") = {}

\* On a tty, an animation was interrupted after its second frame write.
C6_Witness ==
    /\ draw.pc = "raised" /\ draw.err = "KeyboardInterrupt" /\ draw.tty
    /\ Cardinality(Toks("frame")) = 2
    /\ out[1] = HideCursor /\ out[Len(out)] = ShowCursor

\* The frame write before position j, or 0.
PrevFrame(j) ==
    IF \E k \in Toks("frame") : k < j
    THEN CHOOSE k \in Toks("frame") :
            k < j /\ \A m \in Toks("frame") : m < j => m <= k
    ELSE 0

\* C7: an animation with repeat = r > 0 that runs to its end has made
\* exactly r * n frame writes (never more on the way); the first frame write
\* follows no cursor movement, and each later one comes right after a
\* cursor-up by the number of lines of the frame written before it, less
\* one.
C7_FramesOverwrite ==
    /\ (draw.anim /\ draw.repeat > 0) =>
          /\ Cardinality(Toks("frame")) <= draw.repeat * image.nf
          /\ draw.pc = "returned" =>
                Cardinality(Toks("frame")) = draw.repeat * image.nf
    /\ draw.anim =>
         \A j \in Toks("frame") :
            IF PrevFrame(j) = 0
            THEN Toks("up") = {} \/ \A u \in Toks("up") : u > j
            ELSE /\ j > 1
                 /\ out[j - 1] = Tok("up", out[PrevFrame(j)].v - 1)
                 /\ PrevFrame(j) < j - 1
                 /\ \A u \in Toks("up") : (PrevFrame(j) < u /\ u < j) => u = j - 1

\* Two loops over three frames, padded to three lines, ran to the end.
C7_Witness ==
    /\ draw.pc = "returned" /\ draw.anim /\ draw.repeat = 2 /\ image.nf = 3
    /\ Cardinality(Toks("frame")) = 6
    /\ draw.padH = 3 /\ RenderedSize(image)[2] = 2

\* The draw call failed on one of its arguments.
ArgumentError == draw.pc = "raised" /\ draw.err \in {"TypeError", "ValueError", "StyleError"}

\* C10 as claimed: a draw call that fails on an argument has written
\* nothing and has opened no source image.
C10_ValidateFirst ==
    ArgumentError => out = <<>> /\ draw.img = 0

\* The handle opened for an iterator (never the caller's PIL image).
Leaked(i) ==
    /\ it[i].st = "closed"
    /\ ~IsSource(it[i].img)
    /\ handles[it[i].img].open

\* A handle opened by an animation draw call that is over.
DrawLeaked(h) ==
    /\ DrawDone /\ draw.anim
    /\ h # 0 /\ ~IsSource(h)
    /\ handles[h].open

\* C9 as claimed: no closed or exhausted iterator and no finished animation
\* draw leaves a handle opened for it open, and the caller's PIL image is
\* never closed.
C9_HandlesClosed ==
    /\ \A i \in ItIds : ~Leaked(i)
    /\ ~DrawLeaked(draw.img) /\ ~DrawLeaked(draw.itImg)
    /\ image.pil => handles[SourceHandle].open

(***************************************************************************)
(* Properties of the size validation of draw                               *)
(***************************************************************************)
\* The step is a draw call whose own argument checks pass.
DrawCall == draw.pc = "idle" /\ draw'.pc # "idle" /\ draw'.early = "ok"
\* The call raised InvalidSizeError; nothing was rendered or written and
\* no image was opened.
SizeRejected ==
    /\ draw'.pc = "raised" /\ draw'.err = "InvalidSizeError"
    /\ out' = out /\ handles' = handles /\ draw'.g = NewGen
\* The rendered width, the rendered height, exceeds the available one.
TooWide == RenderedSize(image)[1] > TermCols - image.h_allow
TooTall == RenderedSize(image)[2] > TermLines - image.v_allow

\* C11: an animation draw of an image whose rendered size does not fit
\* raises InvalidSizeError before anything is rendered or written, whatever
\* check_size, scroll and the size setting are.
C11_AnimationValidated ==
    [][(DrawCall /\ draw'.anim /\ (TooWide \/ TooTall)) => SizeRejected]_vars

\* What the code does for animations: an image with a fixed size is
\* rejected exactly when it does not fit; an image with a dynamic size is
\* never rejected.
FixedAnimationValidated ==
    [][(DrawCall /\ draw'.anim) =>
          /\ (image.dyn = "" /\ (TooWide \/ TooTall)) => SizeRejected
          /\ draw'.err = "InvalidSizeError" =>
                image.dyn = "" /\ (TooWide \/ TooTall)]_vars

\* C12: a non-animation draw of an image with a fixed size, with
\* check_size true, raises InvalidSizeError when the rendered width exceeds
\* the available width, or when the rendered height exceeds the available
\* height and neither scroll is true nor the size was set with
\* FIT_TO_WIDTH, and only then; with check_size false it never raises it.
C12_StillImageValidated ==
    [][(DrawCall /\ ~draw'.anim /\ image.dyn = "") =>
          IF draw'.check
             /\ (TooWide \/ (TooTall /\ ~draw'.scroll /\ ~image.fit_to_width))
          THEN SizeRejected
          ELSE draw'.err # "InvalidSizeError"]_vars

\* With check_size true and scroll true an image taller than the available
\* height has been drawn.
C12_Witness ==
    /\ draw.pc = "returned" /\ ~draw.anim /\ draw.check /\ draw.scroll
    /\ image.dyn = "" /\ ~image.fit_to_width
    /\ RenderedSize(image)[2] > TermLines - image.v_allow
    /\ Toks("frame") # {}

(***************************************************************************)
(* Properties of sizing                                                    *)
(***************************************************************************)
\* The last call was set_size, and it returned.
SetSizeOk == last.op = "set_size" /\ last.res = "ok"
\* The members and kinds given as width and height to the last sizing call.
ReqKinds == {req.width.kind, req.height.kind}
\* The available size of the last sizing call: maxsize when given, else
\* the terminal size minus the allowances.
ReqAvail ==
    IF req.maxsize.kind = "tuple" THEN req.maxsize.v
    ELSE <<TermCols - req.h_allow.v,
           TermLines - (IF "FIT_TO_WIDTH" \in ReqKinds THEN 0 ELSE req.v_allow.v)>>
\* What _valid_size gives for the last call's limits with `member` as width.
Resolved(member) ==
    ValidSize(image, Arg(member, 0), None, req.h_allow.v, req.v_allow.v,
              req.maxsize.v).size

\* C13: a set_size call that raises leaves the size (fixed or dynamic), the
\* fit-to-width flag and both allowances exactly as they were before it.
C13_SetSizeTransactional ==
    [][(last'.op = "set_size" /\ last'.res # "ok") =>
          /\ image'.size = image.size
          /\ image'.dyn = image.dyn
          /\ image'.fit_to_width = image.fit_to_width
          /\ image'.h_allow = image.h_allow
          /\ image'.v_allow = image.v_allow]_vars

\* A call with a maxsize the result does not fit has raised on an image
\* sized before with allowances other than the defaults.
C13_Witness ==
    /\ last.op = "set_size" /\ last.res = "InvalidSizeError"
    /\ image.dyn = "" /\ image.h_allow = 2 /\ image.v_allow = 0
    /\ req.h_allow.v = 1 /\ req.v_allow.v = 3

\* C14: sizing with Size.FIT succeeds whenever there is at least one
\* available column and line, and the resulting size is at least 1 and at
\* most the available size on both axes.
C14_FitWithin ==
    (last.op = "set_size" /\ ReqKinds \in {{"FIT", "none"}, {"none"}}
       /\ SetSizeError(req.width, req.height, req.h_allow, req.v_allow,
                       req.maxsize) = "ok"
       /\ ReqAvail[1] >= 1 /\ ReqAvail[2] >= 1) =>
      /\ last.res = "ok"
      /\ image.dyn = ""
      /\ 1 <= image.size[1] /\ image.size[1] <= ReqAvail[1]
      /\ 1 <= image.size[2] /\ image.size[2] <= ReqAvail[2]

\* Size.FIT has filled the available width, where the pixel ratio would
\* have made an uncapped width larger, and not the available height.
C14_Witness ==
    /\ SetSizeOk /\ "FIT" \in ReqKinds
    /\ image.pr = Frac(1, 2) /\ image.ori = <<2, 3>>
    /\ image.size[1] = ReqAvail[1] /\ image.size[2] < ReqAvail[2]

\* C15: Size.AUTO gives the size of Size.ORIGINAL when that size fits into
\* the available size on both axes, and the size of Size.FIT otherwise.
C15_AutoOriginalOrFit ==
    (SetSizeOk /\ "AUTO" \in ReqKinds) =>
      image.size = IF Resolved("ORIGINAL")[1] <= ReqAvail[1]
                      /\ Resolved("ORIGINAL")[2] <= ReqAvail[2]
                   THEN Resolved("ORIGINAL")
                   ELSE Resolved("FIT")

\* The size the other axis has before the floor at 1, for a given width or
\* a given height: the original aspect ratio cross-multiplied through the
\* pixel ratio, rounded, in cells.
DerivedHeight(w) ==
    Round(Frac(w * image.cell[1] * image.ori[2] * image.pr[1],
               image.ori[1] * image.pr[2])) \div image.cell[2]
DerivedWidth(h) ==
    Round(Frac(h * image.cell[2] * image.ori[1] * image.pr[2],
               image.ori[2] * image.pr[1])) \div image.cell[1]

\* C16: with only a positive width given the height is the derived height,
\* and with only a positive height given the width is the derived width,
\* raised to 1 when it is 0; the call succeeds when there is no maxsize.
C16_OtherAxisFloored ==
    (last.op = "set_size" /\ "int" \in ReqKinds
       /\ SetSizeError(req.width, req.height, req.h_allow, req.v_allow,
                       req.maxsize) = "ok") =>
      /\ req.maxsize.kind = "none" => last.res = "ok"
      /\ last.res = "ok" =>
           /\ image.size[1] >= 1 /\ image.size[2] >= 1
           /\ req.width.kind = "int" =>
                image.size = <<req.width.v, Max(1, DerivedHeight(req.width.v))>>
           /\ req.height.kind = "int" =>
                image.size = <<Max(1, DerivedWidth(req.height.v)), req.height.v>>

\* width = 1 on a 2:1 original with cells of ratio 0.5: the derived height
\* is 0 and the height is 1.
C16_Witness ==
    /\ SetSizeOk /\ req.width = Arg("int", 1)
    /\ image.ori = <<2, 1>> /\ image.cell = <<1, 2>> /\ image.pr = Frac(1, 1)
    /\ DerivedHeight(1) = 0
    /\ image.size = <<1, 1>>

\* The outcome of _valid_size for the last call, with other allowances.
WithAllowances(h, v) ==
    ValidSize(image, req.width, req.height, h, v, req.maxsize.v)

\* With a maxsize the outcome is the same for all allowances.
AllowancesIgnored ==
    (last.op = "set_size" /\ req.maxsize.kind = "tuple"
       /\ SetSizeError(req.width, req.height, req.h_allow, req.v_allow,
                       req.maxsize) = "ok") =>
      \A h \in 0..TermCols, v \in 0..TermLines :
          /\ WithAllowances(h, v) = WithAllowances(0, 0)
          /\ WithAllowances(h, v).res = last.res
          /\ last.res = "ok" => WithAllowances(h, v).size = image.size

\* C17 as claimed: with a maxsize and a given width or height or
\* Size.FIT_TO_WIDTH, a returned size fits maxsize on both axes; and with a
\* maxsize the allowances do not matter.
C17_FitsMaxsize ==
    /\ (SetSizeOk /\ req.maxsize.kind = "tuple"
          /\ ("int" \in ReqKinds \/ "FIT_TO_WIDTH" \in ReqKinds)) =>
         /\ image.size[1] <= req.maxsize.v[1]
         /\ image.size[2] <= req.maxsize.v[2]
    /\ AllowancesIgnored

\* C17, amended: with a maxsize and a given width or height, the call
\* returns a size that fits maxsize on both axes or raises InvalidSizeError;
\* with a maxsize and Size.FIT_TO_WIDTH the width is that of maxsize and the
\* height is not checked; and with a maxsize the allowances do not matter.
C17_FixedFitsMaxsize ==
    /\ (last.op = "set_size" /\ req.maxsize.kind = "tuple"
          /\ SetSizeError(req.width, req.height, req.h_allow, req.v_allow,
                          req.maxsize) = "ok") =>
         /\ "int" \in ReqKinds =>
              /\ last.res \in {"ok", "InvalidSizeError"}
              /\ last.res = "ok" =>
                   /\ image.size[1] <= req.maxsize.v[1]
                   /\ image.size[2] <= req.maxsize.v[2]
              /\ last.res = "InvalidSizeError" =>
                   \/ req.width.kind = "int"
                        /\ (req.width.v > req.maxsize.v[1]
                            \/ DerivedHeight(req.width.v) > req.maxsize.v[2])
                   \/ req.height.kind = "int"
                        /\ (req.height.v > req.maxsize.v[2]
                            \/ DerivedWidth(req.height.v) > req.maxsize.v[1])
         /\ "FIT_TO_WIDTH" \in ReqKinds =>
              /\ last.res = "ok"
              /\ image.size[1] = req.maxsize.v[1]
    /\ AllowancesIgnored

\* A width that fits a maxsize was accepted with allowances that leave no
\* room in the terminal, and a later call whose height does not fit raised.
C17_Witness ==
    /\ last.op = "set_size" /\ last.res = "InvalidSizeError"
    /\ req.maxsize.kind = "tuple" /\ req.width.kind = "int"
    /\ req.width.v <= req.maxsize.v[1]
    /\ DerivedHeight(req.width.v) > req.maxsize.v[2]
    /\ image.dyn = "" /\ image.h_allow = 1 /\ image.v_allow = 3

(***************************************************************************)
(* Properties of the class registration                                    *)
(***************************************************************************)
\* The classes of the hierarchy of k, itself included.
RECURSIVE Ancestors(_)
Ancestors(k) ==
    {k} \cup UNION {Ancestors(classes[k].bases[i]) :
                      i \in 1..Len(classes[k].bases)}

\* The number of entries a mapping has for class c.
Entries(m, c) == Cardinality({i \in 1..Len(m) : m[i][1] = c})
\* The mapping as the set of its entries: equality of mappings.
AsMapping(m) == {m[i] : i \in 1..Len(m)}
Declares(c, kind) == classes[c][kind].kind = "ns"

\* Mapping m of class k has one entry, the namespace, for every class of
\* the hierarchy of k that declares a namespace of the kind, and no other.
OneEntryEach(k, m, kind) ==
    \A c \in AllClasses :
       IF c \in Ancestors(k) /\ Declares(c, kind)
       THEN /\ Entries(m, c) = 1
            /\ <<c, classes[c][kind].v>> \in AsMapping(m)
       ELSE Entries(m, c) = 0

\* Class k as it would be with its bases listed the other way round.
Swapped(k) ==
    NewClass(classes, k,
             [i \in 1..Len(classes[k].bases) |->
                classes[k].bases[Len(classes[k].bases) + 1 - i]],
             classes[k].Args, classes[k].Data)

\* C18: the merged default-args mapping and the render-data mapping of every
\* renderable class have exactly one entry for each class of its hierarchy,
\* itself included, that declares a namespace, and none for a class that
\* declares none; listing the bases in the other order gives equal mappings.
C18_MergedMappings ==
    \A k \in AllClasses :
       classes[k].defined =>
          /\ OneEntryEach(k, classes[k].ALL_DEFAULT_ARGS, "Args")
          /\ OneEntryEach(k, classes[k].RENDER_DATA_MRO, "Data")
          /\ AsMapping(Swapped(k).ALL_DEFAULT_ARGS)
                = AsMapping(classes[k].ALL_DEFAULT_ARGS)
          /\ AsMapping(Swapped(k).RENDER_DATA_MRO)
                = AsMapping(classes[k].RENDER_DATA_MRO)

\* D(C, B) over A: A and C declare Args, B declares none, and the mapping of
\* D has its one entry for A.
C18_Witness ==
    /\ classes["D"].defined /\ classes["D"].bases = <<"C", "B">>
    /\ Declares("A", "Args") /\ Declares("C", "Args")
    /\ ~Declares("B", "Args") /\ Declares("B", "Data")
    /\ Entries(classes["D"].ALL_DEFAULT_ARGS, "A") = 1
    /\ Len(classes["D"].RENDER_DATA_MRO) >= 2

\* The classes registered with namespace n of the kind.
Declarers(kind, n) ==
    {c \in AllClasses : classes[c].defined /\ classes[c][kind] = Arg("ns", n)}

\* A namespace is associated with the one class registered with it, and
\* with none while there is no such class.
AssociationIsDeclarer ==
    \A kind \in NsKinds, n \in Namespaces :
       Declarers(kind, n) =
          IF render_cls[kind][n] = "None" THEN {} ELSE {render_cls[kind][n]}

\* Registering a class is refused with RenderableError when its Args, or
\* with an Args that is None or a namespace its _Data_, is an associated
\* namespace or a subclass of one.
RefusesAssociated ==
    \A args \in Declarations, data \in Declarations :
       \/ /\ args.kind = "ns"
             /\ AssociatedWith(render_cls.Args, args.v) # "None"
          \/ /\ args.kind \in {"none", "ns"} /\ data.kind = "ns"
             /\ AssociatedWith(render_cls.Data, data.v) # "None"
       => RegisterError(render_cls, args, data) = "RenderableError"

\* C19: a namespace class is associated with at most one renderable class,
\* permanently: with none until the first class declaring it is registered
\* and with that class ever after; registering another class whose Args or
\* _Data_ is that namespace or a subclass of it fails with RenderableError,
\* and a failed registration changes no association.
C19_PermanentAssociation ==
    /\ [](AssociationIsDeclarer /\ RefusesAssociated)
    /\ [][/\ \A kind \in NsKinds, n \in Namespaces :
                render_cls[kind][n] # "None"
                   => render_cls'[kind][n] = render_cls[kind][n]
          /\ last'.op = "class" /\ last'.res # "ok"
                => UNCHANGED <<classes, render_cls>>
          /\ last'.op = "class" /\ last'.id # 0
             /\ AssociatedWith(render_cls.Args, last'.id) # "None"
                => last'.res = "RenderableError"]_vars

\* A class was refused whose Args is a subclass, associated with no class of
\* its own, of the Args of A.
C19_Witness ==
    /\ last = Note("class", 2, "RenderableError")
    /\ render_cls.Args[1] = "A" /\ render_cls.Args[2] = "None"
    /\ classes["A"].defined /\ ~classes["B"].defined

(***************************************************************************)
(* Properties of the render call                                           *)
(***************************************************************************)
\* C20: the render data of a render call is finalized exactly once by the
\* time the call returns or raises, also when the renderer or the size
\* validation fails, unless the call was made with finalize = False: then
\* it is left unfinalized.  It is never finalized twice.
C20_FinalizedOnce ==
    render.called =>
       /\ render.finalizations = (IF render.finalized THEN 1 ELSE 0)
       /\ render.finalize => render.finalized
       /\ last.op = "_init_render_" /\ ~render.finalize => ~render.finalized

\* A render call with finalize left True was refused by the size validation
\* and its data is finalized.
C20_Witness ==
    /\ last.op = "_init_render_" /\ render.called /\ render.finalize
    /\ render.res = "RenderSizeOutofRangeError"
    /\ render.finalized /\ render.finalizations = 1

(***************************************************************************)
(* Properties of seek and tell of a renderable                             *)
(***************************************************************************)
\* The step is a seek of the renderable.
RenderableSought == last'.op = "renderable.seek"

\* C21: on a renderable of a definite frame count n, seek(offset, whence)
\* designates offset for START, tell() + offset for CURRENT and
\* (n - 1) + offset for END; a frame number in 0..n-1 becomes the seek
\* position and is returned, any other raises ValueError and leaves tell()
\* as it was.
C21_SeekDefinite ==
    [][RenderableSought /\ renderable.frame_count # Indefinite =>
         LET n == renderable.frame_count
             offset == renderable'.offset
             target == IF renderable'.whence = "START" THEN offset
                       ELSE IF renderable'.whence = "CURRENT"
                       THEN renderable.pos + offset
                       ELSE (n - 1) + offset
         IN  IF 0 <= target /\ target < n
             THEN /\ last'.res = "ok" /\ last'.id = target
                  /\ renderable'.pos = target
             ELSE /\ last'.res = "ValueError"
                  /\ renderable'.pos = renderable.pos]_vars

\* A seek from the end went to the frame before the last.
C21_Witness ==
    /\ last = Note("renderable.seek", 1, "ok")
    /\ renderable.frame_count = 3 /\ renderable.whence = "END"
    /\ renderable.offset = -1 /\ renderable.pos = 1

\* C22: every seek of a renderable of indefinite frame count raises
\* IndefiniteSeekError, whatever the offset and the whence, and tell() is 0
\* before and after it.
C22_SeekIndefinite ==
    [][RenderableSought /\ renderable.frame_count = Indefinite =>
         /\ last'.res = "IndefiniteSeekError"
         /\ renderable.pos = 0 /\ renderable'.pos = 0]_vars

\* A seek to the last frame of a renderable of indefinite frame count was
\* refused.
C22_Witness ==
    /\ renderable.frame_count = Indefinite
    /\ last = Note("renderable.seek", -1, "IndefiniteSeekError")
    /\ renderable.whence = "END" /\ renderable.offset = 0
    /\ renderable.pos = 0

(***************************************************************************)
(* Properties of the render methods                                        *)
(***************************************************************************)
\* The class-wide method a class without one of its own is to use: that of
\* its parent style class, or the default if it has no such parent.
Inherited(c) ==
    IF StyleParent(c) = "BaseImage" THEN DefaultRenderMethod(c)
    ELSE ClassRenderMethod(styles, StyleParent(c))

\* C26: after set_render_method(None) via a class, and until a method is
\* set via that class, the class uses the class-wide render method of its
\* parent style class, if any, or the default, also one the parent sets
\* afterwards; so do its images without a method of their own.
C26_ClassResetInherits ==
    \A c \in StyleClasses :
       styles.via[c] = "unset" =>
          /\ ClassRenderMethod(styles, c) = Inherited(c)
          /\ \A i \in StyleImages :
                StyleOf(i) = c /\ styles.via[i] \in {"", "unset"}
                   => RenderMethod(styles, i) = Inherited(c)

\* C27: the render method of an image is the one last set via the image,
\* unless it was reset since or none was set: then it is the current
\* class-wide method of its class.
C27_InstanceMethod ==
    \A i \in StyleImages :
       RenderMethod(styles, i) =
          IF styles.via[i] \notin {"", "unset"} THEN styles.via[i]
          ELSE ClassRenderMethod(styles, StyleOf(i))

\* The image was reset and the class-wide method of its class was changed
\* afterwards: the image follows it.
C27_Witness ==
    /\ styles.via["image"] = "unset" /\ styles.via["Style"] = "whole"
    /\ styles.who = "Style" /\ last.res = "ok"
    /\ RenderMethod(styles, "image") = "whole"

(***************************************************************************)
(* Properties of the format specifier                                      *)
(***************************************************************************)
\* The place of the first hash of the specifier checked, 0 if it has none,
\* and the tokens after it.
HashAt ==
    IF \E i \in 1..Len(fmt.spec) : fmt.spec[i] = "#"
    THEN CHOOSE i \in 1..Len(fmt.spec) :
            /\ fmt.spec[i] = "#"
            /\ \A j \in 1..(i - 1) : fmt.spec[j] # "#"
    ELSE 0
AfterHash == SubSeq(fmt.spec, HashAt + 1, Len(fmt.spec))
\* The specifier was accepted.
FormatAccepted == fmt.checked /\ fmt.res = "ok"
\* The hash is followed by a dot and digits: a float below 1.
ThresholdGiven ==
    /\ HashAt > 0 /\ Len(AfterHash) >= 2 /\ Head(AfterHash) = "."
    /\ \A i \in 2..Len(AfterHash) : IsDigit(AfterHash[i])
\* The hash is followed by a hex color.
HexGiven ==
    /\ HashAt > 0
    /\ \/ AfterHash = <<"ffffff">>
       \/ Len(AfterHash) = 6 /\ \A i \in 1..6 : IsDigit(AfterHash[i])
\* What the specifier selects but for a hash followed by nothing: the color
\* given, the threshold given, or the default threshold without a hash.
SelectsGiven ==
    /\ HexGiven => fmt.alpha = [kind |-> "bg", v |-> <<"#">> \o AfterHash]
    /\ ThresholdGiven =>
          /\ fmt.alpha.kind = "threshold"
          /\ fmt.alpha.v[1] * Pow10(Len(AfterHash) - 1)
                = DigitsValue(Tail(AfterHash), Len(AfterHash) - 1) * fmt.alpha.v[2]
          /\ 0 <= fmt.alpha.v[1] /\ fmt.alpha.v[1] < fmt.alpha.v[2]
    /\ HashAt = 0 => fmt.alpha = [kind |-> "threshold", v |-> <<40, 255>>]

\* C28: in a format specifier a hash followed by neither a threshold nor a
\* hex color selects the default background color of the terminal, a hash
\* and a hex color that color, a hash and a float in [0, 1) that alpha
\* threshold, and no hash the default alpha threshold.
C28_BareHashIsBackground ==
    FormatAccepted =>
       /\ SelectsGiven
       /\ HashAt > 0 /\ AfterHash = <<>>
             => fmt.alpha = [kind |-> "bg", v |-> <<"#">>]

\* C28, amended: a hash followed by nothing disables transparency (the
\* alpha is None) and two hashes select the default background color of the
\* terminal; the other forms select what C28 says.
C28_BareHashDisables ==
    FormatAccepted =>
       /\ SelectsGiven
       /\ HashAt > 0 /\ AfterHash = <<>>
             => fmt.alpha = [kind |-> "None", v |-> <<>>]
       /\ HashAt > 0 /\ AfterHash = <<"#">>
             => fmt.alpha = [kind |-> "bg", v |-> <<"#">>]

\* A specifier of a width and a lone hash was accepted.
C28_Witness ==
    /\ FormatAccepted /\ fmt.spec = <<"5", "#">>
    /\ fmt.alpha.kind = "None"

\* Positions a caller may ask for: those in range and one on either side.
SeekPositions == (0 - 1)..image.nf

\* The iterator exists and no advance has been made on it.
NotStarted(i) == it[i].st = "open" /\ it[i].g.gen = "unstarted"

\* What seek(pos) gives in the current state, for each kind of iterator.
SeekOutcomes ==
    \A i \in ItIds : it[i].st # "absent" =>
      \A pos \in SeekPositions :
        LET res == SeekResult(it[i], pos)
            inRange == 0 <= pos /\ pos < image.nf
        IN  /\ ~inRange => res = "ValueError"
            /\ (inRange /\ NotStarted(i)) => res = "TermImageError"
            /\ (inRange /\ it[i].st = "closed") => res = "TermImageError"
            /\ res = "frame" => Active(i)

\* C23: seek succeeds only on an active iterator; with a position in range
\* it raises TermImageError before the first advance and after exhaustion
\* or close, and a position out of range raises ValueError in every state;
\* a seek that raises leaves the iterator (its state and repeat count) and
\* the seek position of the image as they were.
C23_SeekOnlyActive ==
    /\ []SeekOutcomes
    /\ [][\A i \in ItIds :
            (last'.op = "seek" /\ last'.id = i /\ last'.res # "ok") =>
               /\ it'[i] = it[i]
               /\ image'.seek = image.seek]_vars

\* A seek on an exhausted iterator raised TermImageError.
C23_Witness ==
    /\ it[1].st = "closed" /\ it[1].how = "exhausted"
    /\ last = Note("seek", 1, "TermImageError")

\* C24: an iterator caches exactly when its repeat count is not 1 and its
\* cached argument is True or an integer not below the frame count; an
\* iterator that does not cache renders every frame it returns, and the
\* frame is none of those it returned before.
C24_CachingEnabled ==
    /\ [](\A i \in ItIds : it[i].st # "absent" =>
            (it[i].cached <=>
               /\ it[i].repeat # 1
               /\ \/ it[i].carg = Arg("bool", 1)
                  \/ it[i].carg.kind = "int" /\ image.nf <= it[i].carg.v))
    /\ [][\A i \in ItIds : (EmitStep(i) /\ ~it[i].cached) =>
            /\ it'[i].g.renders = it[i].g.renders + 1
            /\ it'[i].g.frame.ser = it'[i].g.renders
            /\ \A k \in 1..image.nf : it[i].seen[k] # it'[i].g.frame]_vars

\* An iterator of one loop, made with cached = True, returned frame 0 again
\* after a seek back to it, having rendered each of its three frames.
C24_Witness ==
    /\ it[1].repeat = 1 /\ it[1].carg = Arg("bool", 1) /\ ~it[1].cached
    /\ it[1].sought /\ it[1].pend = -1 /\ it[1].cnt = 3
    /\ it[1].g.frame.off = 0 /\ it[1].g.renders = 3
    /\ last = Note("next", 1, "frame")

\* The step is the advance of iterator i that found all its loops done.
ExhaustStep(i) ==
    /\ last' = Note("next", i, "StopIteration")
    /\ it[i].st = "open" /\ it'[i].how = "exhausted"

\* C25: after an advance that returns frame k the seek position of the
\* image is k, and k is the frame asked for when a seek came in between;
\* after the advance that exhausts the iterator it is 0; close() leaves it
\* as it was.
C25_SeekPositionFollows ==
    [][\A i \in ItIds :
         /\ EmitStep(i) =>
               /\ image'.seek = it'[i].g.frame.off
               /\ image'.seek = it'[i].g.n
               /\ it[i].pend >= 0 => image'.seek = it[i].pend
         /\ ExhaustStep(i) => image'.seek = 0
         /\ last' = Note("close", i, "ok") => image'.seek = image.seek]_vars

\* An iterator over three frames returned two of them, with a seek made on
\* it, and was then exhausted: the image is at frame 0.
C25_Witness ==
    /\ it[1].how = "exhausted" /\ last = Note("next", 1, "StopIteration")
    /\ it[1].sought /\ it[1].cnt = 2 /\ image.nf = 3 /\ image.seek = 0

\* C29: a draw call that animates leaves the seek position of the image as
\* it was before the call, however the call ends: prev_seek_pos holds that
\* position while the frames are written, and the position is the same
\* again when the call returns or raises.
C29_DrawRestoresSeek ==
    [][draw'.anim =>
         /\ (draw.pc = "idle" /\ DrawDone') => image'.seek = image.seek
         /\ (draw.pc = "idle" /\ draw'.pc = "anim") => draw'.prev = image.seek
         /\ (draw.pc = "anim" /\ draw'.pc = "anim") => draw'.prev = draw.prev
         /\ (draw.pc = "anim" /\ DrawDone') => image'.seek = draw.prev]_vars

\* An animation of an image at frame 1 wrote three frames and was then
\* interrupted: the image is at frame 1.
C29_Witness ==
    /\ draw.anim /\ draw.pc = "raised" /\ draw.err = "KeyboardInterrupt"
    /\ Len(SelectSeq(out, LAMBDA t : t.t = "frame")) = 3
    /\ draw.prev = 1 /\ image.seek = 1

(***************************************************************************)
(* Properties of the render operations                                     *)
(***************************************************************************)
\* What the image reports of its size: the Size member of a dynamic size
\* ("" for a fixed size), the fixed size, _fit_to_width and the allowances.
SizeSetting(im) == <<im.dyn, im.size, im.fit_to_width, im.h_allow, im.v_allow>>

\* A dynamic size comes with no fixed size and the default allowances.
DynamicDefaults(im) ==
    im.dyn # "" =>
       SizeSetting(im) = <<im.dyn, <<0, 0>>, im.dyn = "FIT_TO_WIDTH", 0, 2>>

\* The step is a whole call of str, format, ImageIterator or draw.
WholeCall ==
    \/ last'.op \in {"str", "format", "create"}
    \/ draw.pc = "idle" /\ DrawDone'

\* C30: str, format, the creation of an iterator and draw leave the size
\* setting of the image as it was, whether they return or raise: a dynamic
\* size is the same Size member again, with the default allowances, and a
\* fixed size keeps its size, fit-to-width flag and allowances.  A draw call
\* that animates keeps a dynamic size in _size while it runs.
C30_SizeSettingKept ==
    /\ [](draw.pc # "anim" => DynamicDefaults(image))
    /\ [][/\ WholeCall => SizeSetting(image') = SizeSetting(image)
          /\ (draw.pc = "idle" /\ draw'.pc = "anim") => draw'.dyn = image.dyn
          /\ (draw.pc = "anim" /\ draw'.pc = "anim") => draw'.dyn = draw.dyn
          /\ (draw.pc = "anim" /\ DrawDone') => image'.dyn = draw.dyn
          /\ (draw.dyn = "" /\ draw'.dyn = "" /\ draw'.pc # "idle") =>
                SizeSetting(image') = SizeSetting(image)]_vars

\* After another render operation opened the image file, a draw call
\* animated an image of size FIT, wrote a frame and raised from the render
\* of the next: the size is FIT.
C30_Witness ==
    /\ draw.anim /\ draw.pc = "raised" /\ draw.err = "RenderError"
    /\ Len(SelectSeq(out, LAMBDA t : t.t = "frame")) = 1
    /\ draw.dyn = "FIT" /\ image.dyn = "FIT"
    /\ \E h \in 1..Len(handles) : h # draw.img /\ h # draw.itImg

====
